---------------------------- MODULE Spec2Model ----------------------------
(***************************************************************************)
(* A model of the psychedelic animation engine: the Animation base class,  *)
(* its six variants, the registry/factory and the driver's reset.          *)
(*                                                                         *)
(* One animation instance (the driver's this.animation) is the record      *)
(* anim; every public operation of the instance is one action.            *)
(*                                                                         *)
(* JavaScript numbers are modelled in fixed point, one unit per quantity:  *)
(*   deltaTime               whole milliseconds                            *)
(*   time                    1/10      (deltaTime * speed)                 *)
(*   speed, rotationSpeed, zoomSpeed, colorSpeed, spiralSpeed, timeSpeed,  *)
(*   waveSpeed, lineWidth, persistence, lacunarity, brightness, contrast   *)
(*                           1/10                                          *)
(*   gravity, bounceDamping, colorShift, params.centerX/centerY, and the   *)
(*   instance's centerX/centerY                                            *)
(*                           1/100                                         *)
(*   airDamping, trailFade, frequency1/2, scale, Math.random()             *)
(*                           1/1000                                        *)
(*   particle velocity       1/100 pixel                                   *)
(*   particle / trail position, rotationPhase, noiseOffset, curve time t   *)
(*                           1/10000                                       *)
(*   colorOffset             1/100000                                      *)
(*   zoom                    1/1000                                        *)
(* A product that is not a whole number of units is truncated towards      *)
(* zero, where IEEE-754 would round to the nearest double.                 *)
(***************************************************************************)
EXTENDS Integers, Sequences, FiniteSets, TLC

\* ------------------------------------------------------------------ bounds
\* canvas.width and canvas.height in pixels (the canvas is the host page's).
Width == 800
Height == 600
\* update() calls made on one instance while it is playing.
MaxUpdates == 3
\* render() calls on one instance that sample a trail point or advance the noise.
MaxRenders == 1
\* The particleCount a particle system is constructed with.
MaxParticles == 1
\* The largest frame delta the driver passes to update(), in milliseconds.
FrameDelta == 100
\* The largest maxIterations a Fractal whose points are evaluated is given.
MaxIterationsBound == 3

\* --------------------------------------------------------------- helpers
Max(a, b) == IF a >= b THEN a ELSE b
Min(a, b) == IF a <= b THEN a ELSE b

\* a / s truncated towards zero.
TruncDiv(a, s) == IF a >= 0 THEN a \div s ELSE -((-a) \div s)

\* The empty object literal {}.
EmptyObject == [k \in {} |-> 0]

\* { ...a, ...b }: own keys of both, b's value where both have the key.
Spread(a, b) == [k \in DOMAIN a \cup DOMAIN b |-> IF k \in DOMAIN b THEN b[k] ELSE a[k]]

\* ------------------------------------------------------ default parameters
AnimationDefaultParams == [speed |-> 10, trails |-> FALSE, trailFade |-> 950]

RotatingPolygonsDefaultParams ==
    Spread(AnimationDefaultParams,
           [numPolygons |-> 5, sides |-> 6, maxRadius |-> 200, minRadius |-> 50,
            rotationSpeed |-> 10, colorShift |-> 0, lineWidth |-> 20])

WaveInterferenceDefaultParams ==
    Spread(AnimationDefaultParams,
           [frequency1 |-> 50, frequency2 |-> 30, amplitude |-> 50,
            waveSpeed |-> 10, colorMode |-> "rainbow"])

ParticleSystemDefaultParams ==
    Spread(AnimationDefaultParams,
           [particleCount |-> 100, gravity |-> 10, bounceDamping |-> 80,
            airDamping |-> 999, trailLength |-> 20, colorMode |-> "velocity"])

PerlinNoiseDefaultParams ==
    Spread(AnimationDefaultParams,
           [scale |-> 10, octaves |-> 4, persistence |-> 5, lacunarity |-> 20,
            timeSpeed |-> 10, colorMode |-> "rainbow", brightness |-> 10])

FractalDefaultParams ==
    Spread(AnimationDefaultParams,
           [maxIterations |-> 100, zoomSpeed |-> 10, colorSpeed |-> 10,
            fractalType |-> "mandelbrot", colorMode |-> "rainbow",
            brightness |-> 10, contrast |-> 10, centerX |-> -50, centerY |-> 0])

SpirographDefaultParams_noCallThrough ==
    [R |-> 100, r |-> 30, d |-> 50, spiralSpeed |-> 10, colorShift |-> 0, trailFade |-> 990]
SpirographDefaultParams ==
    Spread(AnimationDefaultParams,
           [R |-> 100, r |-> 30, d |-> 50, spiralSpeed |-> 10,
            colorShift |-> 0, trailFade |-> 990])

\* The own keys of the ANIMATIONS registry.
Types == {"rotating_polygons", "wave_interference", "particle_system",
          "perlin_noise", "fractal", "spirograph"}

\* this.getDefaultParams(), dispatched on the class.
getDefaultParams(type) ==
    CASE type = "rotating_polygons" -> RotatingPolygonsDefaultParams
      [] type = "wave_interference" -> WaveInterferenceDefaultParams
      [] type = "particle_system"   -> ParticleSystemDefaultParams
      [] type = "perlin_noise"      -> PerlinNoiseDefaultParams
      [] type = "fractal"           -> FractalDefaultParams
      [] type = "spirograph"        -> SpirographDefaultParams

\* --------------------------------------------------------- control schemas
\* The two kinds of descriptor a schema holds; min, max and step are in the
\* unit of the parameter they describe.
Range(min, max, step) == [type |-> "range", min |-> min, max |-> max, step |-> step]
Select(options) == [type |-> "select", options |-> options]

RotatingPolygonsControlSchema ==
    [numPolygons |-> Range(1, 10, 1), sides |-> Range(3, 12, 1),
     maxRadius |-> Range(50, 300, 10), minRadius |-> Range(10, 100, 5),
     rotationSpeed |-> Range(1, 50, 1), colorShift |-> Range(0, 100, 1),
     lineWidth |-> Range(10, 100, 5)]

WaveInterferenceControlSchema ==
    [frequency1 |-> Range(10, 100, 1), frequency2 |-> Range(10, 100, 1),
     amplitude |-> Range(10, 100, 5), waveSpeed |-> Range(1, 30, 1),
     colorMode |-> Select({"rainbow", "monochrome"})]

ParticleSystemControlSchema ==
    [particleCount |-> Range(10, 200, 10), gravity |-> Range(0, 100, 1),
     bounceDamping |-> Range(0, 100, 1), airDamping |-> Range(0, 1000, 10),
     trailLength |-> Range(5, 200, 5), colorMode |-> Select({"velocity", "white"})]

PerlinNoiseControlSchema ==
    [scale |-> Range(1, 50, 1), octaves |-> Range(1, 8, 1),
     persistence |-> Range(1, 10, 1), lacunarity |-> Range(10, 40, 1),
     timeSpeed |-> Range(1, 50, 1), brightness |-> Range(1, 20, 1),
     colorMode |-> Select({"rainbow", "fire", "monochrome"})]

FractalControlSchema_otherNames ==
    [type |-> Select({"mandelbrot", "julia", "burning_ship"}),
     maxIterations |-> Range(20, 300, 10), zoomSpeed |-> Range(0, 50, 1),
     colorSpeed |-> Range(0, 100, 1), centerX |-> Range(-200, 200, 1),
     centerY |-> Range(-200, 200, 1), brightness |-> Range(1, 20, 1),
     contrast |-> Range(1, 30, 1),
     colorMode |-> Select({"rainbow", "fire", "ocean", "monochrome"})]
FractalControlSchema ==
    [fractalType |-> Select({"mandelbrot", "julia", "burning_ship"}),
     maxIterations |-> Range(20, 300, 10), zoomSpeed |-> Range(0, 50, 1),
     colorSpeed |-> Range(0, 100, 1), centerX |-> Range(-200, 200, 1),
     centerY |-> Range(-200, 200, 1), brightness |-> Range(1, 20, 1),
     contrast |-> Range(1, 30, 1),
     colorMode |-> Select({"rainbow", "fire", "ocean", "monochrome"})]

SpirographControlSchema ==
    [R |-> Range(50, 200, 5), r |-> Range(10, 80, 1), d |-> Range(10, 100, 1),
     spiralSpeed |-> Range(1, 30, 1), colorShift |-> Range(0, 100, 1),
     trailFade |-> Range(900, 999, 1)]

\* this.getControlSchema(), dispatched on the class.
getControlSchema(type) ==
    CASE type = "rotating_polygons" -> RotatingPolygonsControlSchema
      [] type = "wave_interference" -> WaveInterferenceControlSchema
      [] type = "particle_system"   -> ParticleSystemControlSchema
      [] type = "perlin_noise"      -> PerlinNoiseControlSchema
      [] type = "fractal"           -> FractalControlSchema
      [] type = "spirograph"        -> SpirographControlSchema

\* ------------------------------------------------------------ the instance
\* The instance is a record of every field a class of the hierarchy declares.
\* A field a class does not declare (rotationPhase on a Fractal, ...) is held
\* at the value given here and is never read for that class.
VARIABLES
    anim,       \* the animation instance
    last,       \* the last call made: its name, arguments and outcome
    updates,    \* update() calls made on this instance while playing
    renders     \* render() calls that changed this instance

vars == <<anim, last, updates, renders>>

\* Four successive values of Math.random(), in thousandths, each in [0, 1):
\* the draws for x, y, vx and vy of one particle.
RandomDraws == { <<0, 999, 0, 999>>, <<999, 0, 999, 0>> }

\* Animation.constructor.
Animation_constructor(type, params) ==
    [type |-> type,
     width |-> Width, height |-> Height,
     centerX |-> (Width * 100) \div 2, centerY |-> (Height * 100) \div 2,
     frame |-> 0, time |-> 0,
     params |-> Spread(getDefaultParams(type), params),
     isPlaying |-> FALSE,
     rotationPhase |-> 0, lastTime |-> 0, lastRotationSpeed |-> 0,
     particles |-> <<>>,
     noiseOffset |-> 0, permutation |-> <<>>,
     zoom |-> 0, colorOffset |-> 0,
     trailPoints |-> <<>>]

\* One particle as initializeParticles pushes it, for four draws of Math.random().
NewParticle(a, rx, ry, rvx, rvy) ==
    [x |-> rx * a.width * 10, y |-> ry * a.height * 10,
     vx |-> rvx - 500, vy |-> rvy - 500,
     trail |-> <<>>]

\* The particles initializeParticles can push.
RandomParticles(a) ==
    { NewParticle(a, rnd[1], rnd[2], rnd[3], rnd[4]) : rnd \in RandomDraws }

initializeParticles_appends(a) ==
    { [a EXCEPT !.particles = a.particles \o ps] :
        ps \in [1..Max(0, a.params.particleCount) -> RandomParticles(a)] }
\* ParticleSystem.initializeParticles: the instances it can leave.
initializeParticles(a) ==
    { [a EXCEPT !.particles = ps] :
        ps \in [1..Max(0, a.params.particleCount) -> RandomParticles(a)] }

\* The size of the permutation PerlinNoise.generatePermutation shuffles.
PermutationSize == 256

\* The streams of Math.random() values generatePermutation can be given: the
\* value drawn for index i is (first + step * i) % 1000 thousandths, in [0, 1).
RandomStreams ==
    { [first |-> 999, step |-> 0], [first |-> 0, step |-> 619] }

\* Math.floor(Math.random() * (i + 1)) for the value the stream gives at i.
RandomIndex(stream, i) == (((stream.first + stream.step * i) % 1000) * (i + 1)) \div 1000

Exchange_copiesOnly(p, i, j) == [p EXCEPT ![i] = p[j]]

\* [p[i], p[j]] = [p[j], p[i]].
Exchange(p, i, j) == [p EXCEPT ![i] = p[j], ![j] = p[i]]

\* The passes of generatePermutation's shuffle loop for i from high down to
\* low: the upper half of the passes, then the lower half on the table the
\* upper half left. (Reading an entry of that table has it computed before the
\* lower half is entered, which keeps the evaluation shallow.)
RECURSIVE Shuffle(_, _, _, _)
Shuffle(p, high, low, stream) ==
    IF high = low
    THEN Exchange(p, high, RandomIndex(stream, high))
    ELSE LET middle == (high + low) \div 2
             upper == Shuffle(p, high, middle + 1, stream)
         IN IF upper[0] \in 0..(PermutationSize - 1)
            THEN Shuffle(upper, middle, low, stream)
            ELSE upper

\* PerlinNoise.generatePermutation: the identity on 0..255 shuffled, then
\* copied to 256..511.
generatePermutation(stream) ==
    LET identity == [i \in 0..(PermutationSize - 1) |-> i]
        p == Shuffle(identity, PermutationSize - 1, 1, stream)
    IN [i \in 0..(2 * PermutationSize - 1) |-> p[i % PermutationSize]]

\* The tables generatePermutation can return.
PermutationTables == { generatePermutation(stream) : stream \in RandomStreams }

\* The constructors: the instances `new ANIMATIONS[type](canvas, params)` can return.
Construct(type, params) ==
    LET a == Animation_constructor(type, params) IN
    CASE type = "rotating_polygons" ->
           { [a EXCEPT !.rotationPhase = 0, !.lastTime = 0,
                       !.lastRotationSpeed = a.params.rotationSpeed] }
      [] type = "particle_system" -> initializeParticles([a EXCEPT !.particles = <<>>])
      [] type = "perlin_noise" ->
           { [a EXCEPT !.noiseOffset = 0, !.permutation = p] : p \in PermutationTables }
      [] type = "fractal" ->
           { [a EXCEPT !.zoom = 1000, !.centerX = -50, !.centerY = 0, !.colorOffset = 0] }
      [] type = "spirograph" -> { [a EXCEPT !.trailPoints = <<>>] }
      [] OTHER -> { a }

\* ------------------------------------------------------------- play / pause
play_toggles(a) == [a EXCEPT !.isPlaying = ~a.isPlaying]
play(a) == [a EXCEPT !.isPlaying = TRUE]

pause(a) == [a EXCEPT !.isPlaying = FALSE]

\* ------------------------------------------------------------------ update
Animation_update_unguarded(a, deltaTime) ==
    [a EXCEPT !.time = a.time + deltaTime * a.params.speed, !.frame = a.frame + 1]
Animation_update_ignoresSpeed(a, deltaTime) ==
    IF a.isPlaying
    THEN [a EXCEPT !.time = a.time + deltaTime * 10, !.frame = a.frame + 1]
    ELSE a
Animation_update_absolute(a, deltaTime) ==
    IF a.isPlaying
    THEN [a EXCEPT !.time = a.frame * deltaTime * a.params.speed, !.frame = a.frame + 1]
    ELSE a
Animation_update(a, deltaTime) ==
    IF a.isPlaying
    THEN [a EXCEPT !.time = a.time + deltaTime * a.params.speed, !.frame = a.frame + 1]
    ELSE a

RotatingPolygons_update_absolutePhase(a, deltaTime) ==
    LET b == Animation_update(a, deltaTime)
    IN IF b.isPlaying
       THEN [b EXCEPT !.rotationPhase = b.time * b.params.rotationSpeed,
                      !.lastTime = b.time,
                      !.lastRotationSpeed = b.params.rotationSpeed]
       ELSE b
\* RotatingPolygons.update; the factor 0.01 is in the unit of rotationPhase.
RotatingPolygons_update(a, deltaTime) ==
    LET b == Animation_update(a, deltaTime)
        timeDelta == b.time - b.lastTime
    IN IF b.isPlaying
       THEN [b EXCEPT !.rotationPhase = b.rotationPhase + timeDelta * b.params.rotationSpeed,
                      !.lastTime = b.time,
                      !.lastRotationSpeed = b.params.rotationSpeed]
       ELSE b

StepParticle_reflectsOnly(a, particle, deltaTime) ==
    LET airDamping == a.params.airDamping
        w == a.width * 10000
        h == a.height * 10000
        vx2 == TruncDiv(particle.vx * airDamping, 1000)
        vy2 == TruncDiv((particle.vy + a.params.gravity) * airDamping, 1000)
        x1 == particle.x + vx2 * deltaTime
        y1 == particle.y + vy2 * deltaTime
        vx3 == IF x1 <= 0 \/ x1 >= w THEN TruncDiv(vx2 * (-a.params.bounceDamping), 100) ELSE vx2
        vy3 == IF y1 <= 0 \/ y1 >= h THEN TruncDiv(vy2 * (-a.params.bounceDamping), 100) ELSE vy2
        pushed == Append(particle.trail, [x |-> x1, y |-> y1])
        trail == IF Len(pushed) > a.params.trailLength THEN Tail(pushed) ELSE pushed
    IN [x |-> x1, y |-> y1, vx |-> vx3, vy |-> vy3, trail |-> trail]
\* One particle's step of ParticleSystem.update's forEach body.
StepParticle(a, particle, deltaTime) ==
    LET gravity == a.params.gravity
        bounceDamping == a.params.bounceDamping
        airDamping == a.params.airDamping
        trailLength == a.params.trailLength
        w == a.width * 10000
        h == a.height * 10000
        vy1 == particle.vy + gravity
        vx2 == TruncDiv(particle.vx * airDamping, 1000)
        vy2 == TruncDiv(vy1 * airDamping, 1000)
        x1 == particle.x + vx2 * deltaTime
        y1 == particle.y + vy2 * deltaTime
        hitX == x1 <= 0 \/ x1 >= w
        hitY == y1 <= 0 \/ y1 >= h
        vx3 == IF hitX THEN TruncDiv(vx2 * (-bounceDamping), 100) ELSE vx2
        vy3 == IF hitY THEN TruncDiv(vy2 * (-bounceDamping), 100) ELSE vy2
        x2 == IF hitX THEN Max(0, Min(w, x1)) ELSE x1
        y2 == IF hitY THEN Max(0, Min(h, y1)) ELSE y1
        pushed == Append(particle.trail, [x |-> x2, y |-> y2])
        trail == IF Len(pushed) > trailLength THEN Tail(pushed) ELSE pushed
    IN [x |-> x2, y |-> y2, vx |-> vx3, vy |-> vy3, trail |-> trail]

ParticleSystem_update(a, deltaTime) ==
    LET b == Animation_update(a, deltaTime) IN
    IF ~b.isPlaying
    THEN b
    ELSE [b EXCEPT !.particles =
            [i \in 1..Len(b.particles) |-> StepParticle(b, b.particles[i], deltaTime)]]

Fractal_update(a, deltaTime) ==
    LET b == Animation_update(a, deltaTime) IN
    IF b.isPlaying
    THEN [b EXCEPT !.zoom = TruncDiv(b.zoom * (1000000 + b.params.zoomSpeed * deltaTime),
                                     1000000),
                   !.colorOffset = b.colorOffset + b.params.colorSpeed * deltaTime,
                   !.centerX = b.params.centerX,
                   !.centerY = b.params.centerY]
    ELSE b

\* a.update(deltaTime), dispatched on the class.
update(a, deltaTime) ==
    CASE a.type = "rotating_polygons" -> RotatingPolygons_update(a, deltaTime)
      [] a.type = "particle_system"   -> ParticleSystem_update(a, deltaTime)
      [] a.type = "fractal"           -> Fractal_update(a, deltaTime)
      [] OTHER                        -> Animation_update(a, deltaTime)

\* ------------------------------------------------------------------- reset
Animation_reset(a) == [a EXCEPT !.frame = 0, !.time = 0]

RotatingPolygons_reset_keepsLastTime(a) ==
    LET b == Animation_reset(a) IN [b EXCEPT !.rotationPhase = 0]
RotatingPolygons_reset(a) ==
    [Animation_reset(a) EXCEPT !.rotationPhase = 0, !.lastTime = 0]

Fractal_reset_keepsCentre(a) ==
    LET b == Animation_reset(a) IN [b EXCEPT !.zoom = 1000, !.colorOffset = 0]
Fractal_reset(a) ==
    LET b == Animation_reset(a) IN
    [b EXCEPT !.zoom = 1000, !.centerX = b.params.centerX,
              !.centerY = b.params.centerY, !.colorOffset = 0]

\* a.reset(), dispatched on the class.
reset(a) ==
    CASE a.type = "rotating_polygons" -> RotatingPolygons_reset(a)
      [] a.type = "fractal"           -> Fractal_reset(a)
      [] OTHER                        -> Animation_reset(a)

\* ------------------------------------------------------------ updateParams
updateParams_knownKeysOnly(a, newParams) ==
    [a EXCEPT !.params =
        [k \in DOMAIN a.params |-> IF k \in DOMAIN newParams THEN newParams[k] ELSE a.params[k]]]
updateParams(a, newParams) == [a EXCEPT !.params = Spread(a.params, newParams)]

\* ------------------------------------------------------------------ render
\* Math.cos and Math.sin, times 10000, at every hundredth of a radian of [0, 6.28].
CosTable ==
  <<
    10000, 10000, 9998, 9996, 9992, 9988, 9982, 9976, 9968, 9960, 9950, 9940, 9928, 9916, 9902, 9888,
    9872, 9856, 9838, 9820, 9801, 9780, 9759, 9737, 9713, 9689, 9664, 9638, 9611, 9582, 9553, 9523,
    9492, 9460, 9428, 9394, 9359, 9323, 9287, 9249, 9211, 9171, 9131, 9090, 9048, 9004, 8961, 8916,
    8870, 8823, 8776, 8727, 8678, 8628, 8577, 8525, 8473, 8419, 8365, 8309, 8253, 8196, 8139, 8080,
    8021, 7961, 7900, 7838, 7776, 7712, 7648, 7584, 7518, 7452, 7385, 7317, 7248, 7179, 7109, 7038,
    6967, 6895, 6822, 6749, 6675, 6600, 6524, 6448, 6372, 6294, 6216, 6137, 6058, 5978, 5898, 5817,
    5735, 5653, 5570, 5487, 5403, 5319, 5234, 5148, 5062, 4976, 4889, 4801, 4713, 4625, 4536, 4447,
    4357, 4267, 4176, 4085, 3993, 3902, 3809, 3717, 3624, 3530, 3436, 3342, 3248, 3153, 3058, 2963,
    2867, 2771, 2675, 2579, 2482, 2385, 2288, 2190, 2092, 1994, 1896, 1798, 1700, 1601, 1502, 1403,
    1304, 1205, 1106, 1006, 907, 807, 707, 608, 508, 408, 308, 208, 108, 8, -92, -192,
    -292, -392, -492, -592, -691, -791, -891, -990, -1090, -1189, -1288, -1388, -1487, -1585, -1684, -1782,
    -1881, -1979, -2077, -2175, -2272, -2369, -2466, -2563, -2660, -2756, -2852, -2948, -3043, -3138, -3233, -3327,
    -3421, -3515, -3609, -3702, -3795, -3887, -3979, -4070, -4161, -4252, -4342, -4432, -4522, -4611, -4699, -4787,
    -4875, -4962, -5048, -5135, -5220, -5305, -5390, -5474, -5557, -5640, -5722, -5804, -5885, -5966, -6046, -6125,
    -6204, -6282, -6359, -6436, -6512, -6588, -6663, -6737, -6811, -6883, -6956, -7027, -7098, -7168, -7237, -7306,
    -7374, -7441, -7508, -7573, -7638, -7702, -7766, -7828, -7890, -7951, -8011, -8071, -8130, -8187, -8244, -8301,
    -8356, -8410, -8464, -8517, -8569, -8620, -8670, -8720, -8768, -8816, -8863, -8908, -8953, -8998, -9041, -9083,
    -9124, -9165, -9204, -9243, -9281, -9318, -9353, -9388, -9422, -9455, -9487, -9518, -9549, -9578, -9606, -9633,
    -9660, -9685, -9710, -9733, -9755, -9777, -9797, -9817, -9836, -9853, -9870, -9885, -9900, -9914, -9926, -9938,
    -9948, -9958, -9967, -9974, -9981, -9987, -9991, -9995, -9998, -9999, -10000, -10000, -9998, -9996, -9993, -9988,
    -9983, -9977, -9969, -9961, -9952, -9941, -9930, -9918, -9904, -9890, -9875, -9859, -9841, -9823, -9804, -9784,
    -9762, -9740, -9717, -9693, -9668, -9642, -9615, -9587, -9558, -9528, -9497, -9466, -9433, -9399, -9365, -9329,
    -9293, -9255, -9217, -9178, -9137, -9096, -9054, -9011, -8968, -8923, -8877, -8831, -8783, -8735, -8686, -8636,
    -8585, -8534, -8481, -8428, -8373, -8318, -8262, -8206, -8148, -8090, -8030, -7970, -7910, -7848, -7786, -7723,
    -7659, -7594, -7529, -7462, -7395, -7328, -7259, -7190, -7120, -7050, -6978, -6907, -6834, -6761, -6686, -6612,
    -6536, -6460, -6384, -6306, -6229, -6150, -6071, -5991, -5911, -5830, -5748, -5666, -5583, -5500, -5416, -5332,
    -5247, -5162, -5076, -4990, -4903, -4815, -4727, -4639, -4550, -4461, -4371, -4281, -4190, -4099, -4008, -3916,
    -3824, -3731, -3638, -3545, -3451, -3357, -3263, -3168, -3073, -2978, -2882, -2787, -2690, -2594, -2497, -2400,
    -2303, -2206, -2108, -2010, -1912, -1814, -1715, -1617, -1518, -1419, -1320, -1221, -1122, -1022, -923, -823,
    -723, -623, -524, -424, -324, -224, -124, -24, 76, 176, 276, 376, 476, 576, 676, 775,
    875, 975, 1074, 1173, 1273, 1372, 1471, 1570, 1668, 1767, 1865, 1963, 2061, 2159, 2257, 2354,
    2451, 2548, 2644, 2741, 2837, 2932, 3028, 3123, 3218, 3312, 3407, 3500, 3594, 3687, 3780, 3872,
    3964, 4056, 4147, 4238, 4328, 4418, 4508, 4597, 4685, 4773, 4861, 4948, 5035, 5121, 5206, 5292,
    5376, 5460, 5544, 5627, 5709, 5791, 5872, 5953, 6033, 6112, 6191, 6269, 6347, 6424, 6500, 6576,
    6651, 6725, 6799, 6872, 6944, 7016, 7087, 7157, 7226, 7295, 7363, 7430, 7497, 7563, 7628, 7692,
    7756, 7818, 7880, 7942, 8002, 8061, 8120, 8178, 8235, 8292, 8347, 8402, 8456, 8509, 8561, 8612,
    8662, 8712, 8761, 8808, 8855, 8901, 8946, 8991, 9034, 9076, 9118, 9158, 9198, 9237, 9275, 9312,
    9348, 9383, 9417, 9450, 9482, 9514, 9544, 9573, 9602, 9629, 9656, 9681, 9706, 9729, 9752, 9774,
    9794, 9814, 9833, 9850, 9867, 9883, 9898, 9911, 9924, 9936, 9947, 9957, 9965, 9973, 9980, 9986,
    9991, 9994, 9997, 9999, 10000 >>

SinTable ==
  <<
    0, 100, 200, 300, 400, 500, 600, 699, 799, 899, 998, 1098, 1197, 1296, 1395, 1494,
    1593, 1692, 1790, 1889, 1987, 2085, 2182, 2280, 2377, 2474, 2571, 2667, 2764, 2860, 2955, 3051,
    3146, 3240, 3335, 3429, 3523, 3616, 3709, 3802, 3894, 3986, 4078, 4169, 4259, 4350, 4439, 4529,
    4618, 4706, 4794, 4882, 4969, 5055, 5141, 5227, 5312, 5396, 5480, 5564, 5646, 5729, 5810, 5891,
    5972, 6052, 6131, 6210, 6288, 6365, 6442, 6518, 6594, 6669, 6743, 6816, 6889, 6961, 7033, 7104,
    7174, 7243, 7311, 7379, 7446, 7513, 7578, 7643, 7707, 7771, 7833, 7895, 7956, 8016, 8076, 8134,
    8192, 8249, 8305, 8360, 8415, 8468, 8521, 8573, 8624, 8674, 8724, 8772, 8820, 8866, 8912, 8957,
    9001, 9044, 9086, 9128, 9168, 9208, 9246, 9284, 9320, 9356, 9391, 9425, 9458, 9490, 9521, 9551,
    9580, 9608, 9636, 9662, 9687, 9711, 9735, 9757, 9779, 9799, 9819, 9837, 9854, 9871, 9887, 9901,
    9915, 9927, 9939, 9949, 9959, 9967, 9975, 9982, 9987, 9992, 9995, 9998, 9999, 10000, 10000, 9998,
    9996, 9992, 9988, 9982, 9976, 9969, 9960, 9951, 9940, 9929, 9917, 9903, 9889, 9874, 9857, 9840,
    9822, 9802, 9782, 9761, 9738, 9715, 9691, 9666, 9640, 9613, 9585, 9556, 9526, 9495, 9463, 9430,
    9396, 9362, 9326, 9290, 9252, 9214, 9174, 9134, 9093, 9051, 9008, 8964, 8919, 8874, 8827, 8780,
    8731, 8682, 8632, 8581, 8529, 8477, 8423, 8369, 8314, 8258, 8201, 8143, 8085, 8026, 7966, 7905,
    7843, 7781, 7718, 7654, 7589, 7523, 7457, 7390, 7322, 7254, 7185, 7115, 7044, 6973, 6901, 6828,
    6755, 6681, 6606, 6530, 6454, 6378, 6300, 6222, 6144, 6065, 5985, 5904, 5823, 5742, 5660, 5577,
    5494, 5410, 5325, 5240, 5155, 5069, 4983, 4896, 4808, 4720, 4632, 4543, 4454, 4364, 4274, 4183,
    4092, 4001, 3909, 3817, 3724, 3631, 3538, 3444, 3350, 3255, 3161, 3066, 2970, 2875, 2779, 2683,
    2586, 2489, 2392, 2295, 2198, 2100, 2002, 1904, 1806, 1708, 1609, 1510, 1411, 1312, 1213, 1114,
    1014, 915, 815, 715, 616, 516, 416, 316, 216, 116, 16, -84, -184, -284, -384, -484,
    -584, -684, -783, -883, -982, -1082, -1181, -1281, -1380, -1479, -1577, -1676, -1775, -1873, -1971, -2069,
    -2167, -2264, -2362, -2459, -2555, -2652, -2748, -2844, -2940, -3035, -3131, -3225, -3320, -3414, -3508, -3601,
    -3694, -3787, -3880, -3971, -4063, -4154, -4245, -4335, -4425, -4515, -4604, -4692, -4780, -4868, -4955, -5042,
    -5128, -5213, -5298, -5383, -5467, -5550, -5633, -5716, -5797, -5879, -5959, -6039, -6119, -6197, -6276, -6353,
    -6430, -6506, -6582, -6657, -6731, -6805, -6878, -6950, -7021, -7092, -7162, -7232, -7301, -7369, -7436, -7502,
    -7568, -7633, -7697, -7761, -7823, -7885, -7946, -8007, -8066, -8125, -8183, -8240, -8296, -8352, -8406, -8460,
    -8513, -8565, -8616, -8666, -8716, -8764, -8812, -8859, -8905, -8950, -8994, -9037, -9080, -9121, -9162, -9201,
    -9240, -9278, -9315, -9351, -9386, -9420, -9453, -9485, -9516, -9546, -9576, -9604, -9631, -9658, -9683, -9708,
    -9731, -9754, -9775, -9796, -9816, -9834, -9852, -9868, -9884, -9899, -9912, -9925, -9937, -9948, -9957, -9966,
    -9974, -9981, -9986, -9991, -9995, -9997, -9999, -10000, -10000, -9998, -9996, -9993, -9989, -9983, -9977, -9970,
    -9962, -9952, -9942, -9931, -9919, -9905, -9891, -9876, -9860, -9843, -9825, -9805, -9785, -9764, -9742, -9719,
    -9695, -9670, -9644, -9617, -9589, -9560, -9531, -9500, -9468, -9435, -9402, -9367, -9332, -9295, -9258, -9220,
    -9181, -9141, -9100, -9058, -9015, -8971, -8926, -8881, -8835, -8787, -8739, -8690, -8640, -8589, -8538, -8485,
    -8432, -8378, -8323, -8267, -8210, -8153, -8094, -8035, -7975, -7915, -7853, -7791, -7728, -7664, -7599, -7534,
    -7468, -7401, -7333, -7265, -7196, -7126, -7055, -6984, -6912, -6840, -6766, -6692, -6618, -6542, -6467, -6390,
    -6313, -6235, -6156, -6077, -5997, -5917, -5836, -5755, -5673, -5590, -5507, -5423, -5339, -5254, -5169, -5083,
    -4996, -4910, -4822, -4734, -4646, -4557, -4468, -4378, -4288, -4198, -4107, -4015, -3924, -3831, -3739, -3646,
    -3553, -3459, -3365, -3271, -3176, -3081, -2986, -2890, -2794, -2698, -2602, -2505, -2408, -2311, -2213, -2116,
    -2018, -1920, -1822, -1723, -1625, -1526, -1427, -1328, -1229, -1129, -1030, -931, -831, -731, -631, -532,
    -432, -332, -232, -132, -32 >>

\* Math.cos(angle) and Math.sin(angle) for an angle in 1/10000 radian, read at
\* the hundredth of a radian below it, with 6.28 for the period.
Cos(angle) == CosTable[((angle \div 100) % 628) + 1]
Sin(angle) == SinTable[((angle \div 100) % 628) + 1]

\* The cap Spirograph.render puts on trailPoints.
TrailCap == 2000

\* The curve position Spirograph.render computes, centred on the canvas, and
\* the curve time t it is computed at: the point it may push on the trail.
Spirograph_point(a) ==
    LET R == a.params.R
        r == a.params.r
        d == a.params.d
        t == a.time * a.params.spiralSpeed
        ratio_t == TruncDiv((R - r) * t, r)
        x == (R - r) * Cos(t) + d * Cos(ratio_t)
        y == (R - r) * Sin(t) - d * Sin(ratio_t)
    IN [x |-> a.centerX * 100 + x, y |-> a.centerY * 100 + y, time |-> t]

\* The test Spirograph.render makes before it pushes the point.
InCanvas(a, point) ==
    /\ point.x >= 0 /\ point.x < a.width * 10000
    /\ point.y >= 0 /\ point.y < a.height * 10000

Spirograph_pushed_unchecked(a) == Append(a.trailPoints, Spirograph_point(a))
\* The trail after Spirograph.render's push: the trail it draws.
Spirograph_pushed(a) ==
    LET point == Spirograph_point(a)
    IN IF InCanvas(a, point) THEN Append(a.trailPoints, point) ELSE a.trailPoints

Spirograph_render_keepsOldest(a) ==
    LET pushed == Spirograph_pushed(a)
    IN [a EXCEPT !.trailPoints =
            IF Len(pushed) > TrailCap THEN SubSeq(pushed, 1, TrailCap) ELSE pushed]
\* Spirograph.render: the trail point it samples and the cap on the trail.
\* (Its drawing calls change the canvas only.)
Spirograph_render(a) ==
    LET pushed == Spirograph_pushed(a)
        n == Len(pushed)
    IN [a EXCEPT !.trailPoints =
            IF n > TrailCap THEN SubSeq(pushed, n - TrailCap + 1, n) ELSE pushed]

\* PerlinNoise.render: the advance of noiseOffset.
\* (The pixels it computes change the canvas only.)
PerlinNoise_render(a) == [a EXCEPT !.noiseOffset = a.noiseOffset + a.params.timeSpeed * 10]

render_skipsWhenPaused(a) ==
    CASE ~a.isPlaying            -> a
      [] a.type = "spirograph"   -> Spirograph_render(a)
      [] a.type = "perlin_noise" -> PerlinNoise_render(a)
      [] OTHER                   -> a
\* a.render(), dispatched on the class; the other classes' render changes the
\* canvas only.
render(a) ==
    CASE a.type = "spirograph"   -> Spirograph_render(a)
      [] a.type = "perlin_noise" -> PerlinNoise_render(a)
      [] OTHER                   -> a

\* The parameters each class's render reads and draws with. Animation.render,
\* which every render but Spirograph's calls first, reads trails and trailFade;
\* RotatingPolygons.render destructures rotationSpeed and WaveInterference.render
\* amplitude, and neither uses it.
RenderParams(type) ==
    CASE type = "rotating_polygons" ->
           {"trails", "trailFade", "numPolygons", "sides", "maxRadius", "minRadius",
            "colorShift", "lineWidth"}
      [] type = "wave_interference" ->
           {"trails", "trailFade", "frequency1", "frequency2", "waveSpeed", "colorMode"}
      [] type = "particle_system" -> {"trails", "trailFade", "colorMode"}
      [] type = "perlin_noise" ->
           {"trails", "trailFade", "scale", "octaves", "persistence", "lacunarity",
            "timeSpeed", "colorMode", "brightness"}
      [] type = "fractal" ->
           {"trails", "trailFade", "maxIterations", "fractalType", "colorMode",
            "brightness", "contrast"}
      [] type = "spirograph" -> {"R", "r", "d", "spiralSpeed", "colorShift", "trailFade"}

\* The fields of the instance each class's render draws from.
RenderFields(a) ==
    CASE a.type = "rotating_polygons" -> [time |-> a.time, rotationPhase |-> a.rotationPhase]
      [] a.type = "wave_interference" -> [time |-> a.time]
      [] a.type = "particle_system" -> [particles |-> a.particles]
      [] a.type = "perlin_noise" ->
           [time |-> a.time, noiseOffset |-> PerlinNoise_render(a).noiseOffset]
      [] a.type = "fractal" ->
           [zoom |-> a.zoom, centerX |-> a.centerX, centerY |-> a.centerY,
            colorOffset |-> a.colorOffset]
      [] a.type = "spirograph" -> [trailPoints |-> Spirograph_pushed(a)]

\* What a.render() draws on the canvas, as the values the picture is made
\* from: the parameters render reads, and the fields of the instance it reads.
Drawing(a) ==
    [params |-> [k \in RenderParams(a.type) |-> a.params[k]],
     fields |-> RenderFields(a)]

\* ------------------------------------------------------------------ colours
\* A hue is in 1/6000 (a sixth of the colour wheel is 1000), a saturation and a
\* value in thousandths; a channel is a whole number.

\* JavaScript's a % n for n > 0: the remainder has the sign of a.
Remainder(a, n) == IF a >= 0 THEN a % n ELSE -((-a) % n)

\* Math.round of n / d for d > 0: the nearest whole number, a half rounded up.
Round(n, d) == (2 * n + d) \div (2 * d)

hsvToRgb_noModulo(h, s, v) ==
    LET c == TruncDiv(v * s, 1000)
        lean == h - 1000
        x == TruncDiv(c * (1000 - (IF lean < 0 THEN -lean ELSE lean)), 1000)
        m == v - c
        rgb == CASE h < 1000 -> <<c, x, 0>>
                 [] h < 2000 -> <<x, c, 0>>
                 [] h < 3000 -> <<0, c, x>>
                 [] h < 4000 -> <<0, x, c>>
                 [] h < 5000 -> <<x, 0, c>>
                 [] OTHER    -> <<c, 0, x>>
    IN [i \in 1..3 |-> Round((rgb[i] + m) * 255, 1000)]

\* Animation.hsvToRgb: h * 6 is h in thousandths, and the channels are
\* <<r, g, b>>.
hsvToRgb(h, s, v) ==
    LET c == TruncDiv(v * s, 1000)
        lean == Remainder(h, 2000) - 1000
        x == TruncDiv(c * (1000 - (IF lean < 0 THEN -lean ELSE lean)), 1000)
        m == v - c
        rgb == CASE h < 1000 -> <<c, x, 0>>
                 [] h < 2000 -> <<x, c, 0>>
                 [] h < 3000 -> <<0, c, x>>
                 [] h < 4000 -> <<0, x, c>>
                 [] h < 5000 -> <<x, 0, c>>
                 [] OTHER    -> <<c, 0, x>>
    IN [i \in 1..3 |-> Round((rgb[i] + m) * 255, 1000)]

\* The branch of its colour dispatch a class's render takes for the pixels (or
\* particles) it colours: the chain of colorMode === tests, and its final else.
\* RotatingPolygons.render and Spirograph.render have no dispatch, and colour
\* with hsvToRgb always.
ColorBranch_lastNamedMode(a) ==
    CASE a.type = "wave_interference" ->
           IF a.params.colorMode = "rainbow" THEN "rainbow" ELSE "grayscale"
      [] a.type = "particle_system" ->
           IF a.params.colorMode = "velocity" THEN "velocity" ELSE "white"
      [] a.type = "perlin_noise" ->
           IF a.params.colorMode = "rainbow" THEN "rainbow" ELSE "fire"
      [] a.type = "fractal" ->
           CASE a.params.colorMode = "rainbow" -> "rainbow"
             [] a.params.colorMode = "fire" -> "fire"
             [] OTHER -> "ocean"
      [] OTHER -> "rainbow"

ColorBranch(a) ==
    CASE a.type = "wave_interference" ->
           IF a.params.colorMode = "rainbow" THEN "rainbow" ELSE "grayscale"
      [] a.type = "particle_system" ->
           IF a.params.colorMode = "velocity" THEN "velocity" ELSE "white"
      [] a.type = "perlin_noise" ->
           CASE a.params.colorMode = "rainbow" -> "rainbow"
             [] a.params.colorMode = "fire" -> "fire"
             [] OTHER -> "grayscale"
      [] a.type = "fractal" ->
           CASE a.params.colorMode = "rainbow" -> "rainbow"
             [] a.params.colorMode = "fire" -> "fire"
             [] a.params.colorMode = "ocean" -> "ocean"
             [] OTHER -> "monochrome"
      [] OTHER -> "rainbow"

\* ------------------------------------------------------------ Perlin noise
\* Noise coordinates, their fractions, fade's and noise's values are in
\* 1/10000; a product of two of them is truncated to 1/10000.

\* Math.floor(x) for x in 1/10000.
Floor(x) == x \div 10000

\* n & 255 for a whole number n (two's complement).
Mask255(n) == n % 256

\* PerlinNoise.fade: t * t * t * (t * (t * 6 - 15) + 10).
fade(t) ==
    LET t3 == TruncDiv(TruncDiv(t * t, 10000) * t, 10000)
        inner == TruncDiv(t * (t * 6 - 150000), 10000) + 100000
    IN TruncDiv(t3 * inner, 10000)

\* PerlinNoise.lerp: a + t * (b - a).
lerp(a, b, t) == a + TruncDiv(t * (b - a), 10000)

\* PerlinNoise.grad.
grad(hash, x, y, z) ==
    LET h == hash % 16
        u == IF h < 8 THEN x ELSE y
        v == IF h < 4 THEN y ELSE IF h = 12 \/ h = 14 THEN x ELSE z
    IN (IF h % 2 = 0 THEN u ELSE -u) + (IF (h \div 2) % 2 = 0 THEN v ELSE -v)

\* The indices PerlinNoise.noise computes for its reads of the permutation table.
NoiseCorners_unmaskedZ(permutation, x, y, z) ==
    LET X == Mask255(Floor(x))
        Y == Mask255(Floor(y))
        Z == Floor(z)
        A == permutation[X] + Y
        B == permutation[X + 1] + Y
    IN [X |-> X, A |-> A, B |-> B,
        AA |-> permutation[A] + Z, AB |-> permutation[A + 1] + Z,
        BA |-> permutation[B] + Z, BB |-> permutation[B + 1] + Z]

NoiseCorners(permutation, x, y, z) ==
    LET X == Mask255(Floor(x))
        Y == Mask255(Floor(y))
        Z == Mask255(Floor(z))
        A == permutation[X] + Y
        B == permutation[X + 1] + Y
    IN [X |-> X, A |-> A, B |-> B,
        AA |-> permutation[A] + Z, AB |-> permutation[A + 1] + Z,
        BA |-> permutation[B] + Z, BB |-> permutation[B + 1] + Z]

\* Every index PerlinNoise.noise reads the permutation table at.
NoiseReads(permutation, x, y, z) ==
    LET c == NoiseCorners(permutation, x, y, z)
    IN {c.X, c.X + 1, c.A, c.A + 1, c.B, c.B + 1,
        c.AA, c.AB, c.BA, c.BB, c.AA + 1, c.AB + 1, c.BA + 1, c.BB + 1}

\* PerlinNoise.noise.
noise(permutation, x, y, z) ==
    LET c == NoiseCorners(permutation, x, y, z)
        xf == x - 10000 * Floor(x)
        yf == y - 10000 * Floor(y)
        zf == z - 10000 * Floor(z)
        u == fade(xf)
        v == fade(yf)
        w == fade(zf)
    IN lerp(
         lerp(
           lerp(grad(permutation[c.AA], xf, yf, zf),
                grad(permutation[c.BA], xf - 10000, yf, zf), u),
           lerp(grad(permutation[c.AB], xf, yf - 10000, zf),
                grad(permutation[c.BB], xf - 10000, yf - 10000, zf), u), v),
         lerp(
           lerp(grad(permutation[c.AA + 1], xf, yf, zf - 10000),
                grad(permutation[c.BA + 1], xf - 10000, yf, zf - 10000), u),
           lerp(grad(permutation[c.AB + 1], xf, yf - 10000, zf - 10000),
                grad(permutation[c.BB + 1], xf - 10000, yf - 10000, zf - 10000), u), v), w)

\* The loop of PerlinNoise.fractalNoise from octave i on: value and maxValue
\* when it ends. amplitude is in 1/10000 and frequency in tenths.
RECURSIVE Octaves(_, _, _, _, _, _, _, _, _, _, _)
Octaves(permutation, x, y, z, i, octaves, persistence, lacunarity, amplitude, frequency, sums) ==
    IF i < octaves
    THEN Octaves(permutation, x, y, z, i + 1, octaves, persistence, lacunarity,
                 TruncDiv(amplitude * persistence, 10),
                 TruncDiv(frequency * lacunarity, 10),
                 [value |-> sums.value
                              + TruncDiv(noise(permutation, TruncDiv(x * frequency, 10),
                                               TruncDiv(y * frequency, 10),
                                               TruncDiv(z * frequency, 10)) * amplitude, 10000),
                  maxValue |-> sums.maxValue + amplitude])
    ELSE sums

\* PerlinNoise.fractalNoise.
fractalNoise(permutation, x, y, z, octaves, persistence, lacunarity) ==
    LET sums == Octaves(permutation, x, y, z, 0, octaves, persistence, lacunarity,
                        10000, 10, [value |-> 0, maxValue |-> 0])
    IN TruncDiv(sums.value * 10000, sums.maxValue)

\* --------------------------------------------------- escape-time evaluators
\* Complex coordinates are in thousandths, and a product of two coordinates is
\* truncated to the thousandth; the counts the evaluators return are in
\* hundredths.

\* 2^(i/100) in thousandths, for i = 0..100.
Pow2Table ==
  <<
    1000, 1006, 1013, 1021, 1028, 1035, 1042, 1049, 1057, 1064, 1071, 1079, 1086, 1094, 1101, 1109,
    1117, 1125, 1132, 1140, 1148, 1156, 1164, 1172, 1180, 1189, 1197, 1205, 1214, 1222, 1231, 1239,
    1248, 1257, 1265, 1274, 1283, 1292, 1301, 1310, 1319, 1328, 1337, 1347, 1356, 1366, 1375, 1385,
    1394, 1404, 1414, 1424, 1433, 1443, 1453, 1464, 1474, 1484, 1494, 1505, 1515, 1526, 1536, 1547,
    1558, 1569, 1580, 1591, 1602, 1613, 1624, 1635, 1647, 1658, 1670, 1681, 1693, 1705, 1717, 1729,
    1741, 1753, 1765, 1777, 1790, 1802, 1815, 1827, 1840, 1853, 1866, 1879, 1892, 1905, 1918, 1931,
    1945, 1958, 1972, 1986, 2000 >>

\* The whole part of log2(n / d), for n >= d > 0.
RECURSIVE Log2Whole(_, _)
Log2Whole(n, d) == IF n >= 2 * d THEN 1 + Log2Whole(n, 2 * d) ELSE 0

\* Math.log(n / d) / Math.log(2) in hundredths, rounded down, for n >= d > 0.
Log2(n, d) ==
    LET whole == Log2Whole(n, d)
        mantissa == (n * 1000) \div (d * 2^whole)
        hundredths == CHOOSE i \in 0..99 :
                          Pow2Table[i + 1] <= mantissa /\ mantissa < Pow2Table[i + 2]
    IN 100 * whole + hundredths

\* The constant of the julia family, { r: -0.7, i: 0.27015 }, to the thousandth.
JuliaC == [r |-> -700, i |-> 270]

\* One pass of the body of an evaluator's loop: the next x and y.
OrbitStep(family, x, y, cx, cy) ==
    LET x2 == (x * x) \div 1000
        y2 == (y * y) \div 1000
        xy == TruncDiv(x * y, 1000)
    IN [x |-> x2 - y2 + cx,
        y |-> IF family = "burning_ship"
              THEN 2 * (IF xy < 0 THEN -xy ELSE xy) + cy
              ELSE 2 * xy + cy]

\* The while loop of an evaluator, from (x, y) after iter passes: the count of
\* passes and the squares it ends with.
RECURSIVE EscapeLoop(_, _, _, _, _, _, _)
EscapeLoop(family, x, y, cx, cy, iter, maxIter) ==
    LET x2 == (x * x) \div 1000
        y2 == (y * y) \div 1000
        next == OrbitStep(family, x, y, cx, cy)
    IN IF x2 + y2 <= 4000 /\ iter < maxIter
       THEN EscapeLoop(family, next.x, next.y, cx, cy, iter + 1, maxIter)
       ELSE [iter |-> iter, x2 |-> x2, y2 |-> y2]

SmoothCount_countsPasses(loop, maxIter) ==
    IF loop.iter = maxIter
    THEN loop.iter * 100
    ELSE LET nu == Log2(Log2(loop.x2 + loop.y2, 1000), 200)
         IN (loop.iter + 1) * 100 - nu

\* What an evaluator returns after its loop: 0 when iter === maxIter, and
\* otherwise iter + 1 - nu, with nu = log2(log(x2 + y2) / 2 / log(2)).
SmoothCount(loop, maxIter) ==
    IF loop.iter = maxIter
    THEN 0
    ELSE LET nu == Log2(Log2(loop.x2 + loop.y2, 1000), 200)
         IN (loop.iter + 1) * 100 - nu

mandelbrot(cx, cy, maxIter) ==
    SmoothCount(EscapeLoop("mandelbrot", 0, 0, cx, cy, 0, maxIter), maxIter)

julia(cx, cy, maxIter) ==
    SmoothCount(EscapeLoop("julia", cx, cy, JuliaC.r, JuliaC.i, 0, maxIter), maxIter)

burning_ship(cx, cy, maxIter) ==
    SmoothCount(EscapeLoop("burning_ship", 0, 0, cx, cy, 0, maxIter), maxIter)

\* The switch of Fractal.render: the iterations of the point (x, y).
Fractal_iterations(a, x, y) ==
    CASE a.params.fractalType = "julia" -> julia(x, y, a.params.maxIterations)
      [] a.params.fractalType = "burning_ship" -> burning_ship(x, y, a.params.maxIterations)
      [] OTHER -> mandelbrot(x, y, a.params.maxIterations)

\* ---------------------------------------------- the hsvToRgb calls of render
\* The largest whole number whose square is at most n, between low and high.
RECURSIVE SqrtBetween(_, _, _)
SqrtBetween(n, low, high) ==
    IF low = high
    THEN low
    ELSE LET middle == (low + high + 1) \div 2
         IN IF middle * middle <= n
            THEN SqrtBetween(n, middle, high)
            ELSE SqrtBetween(n, low, middle - 1)

\* Math.sqrt(n), rounded down to a whole number.
Sqrt(n) == SqrtBetween(n, 0, 46340)

\* The pixels of the canvas whose colour is followed: a corner, the centre,
\* and two pixels between them.
SamplePixels == { <<0, 0>>, <<100, 50>>, <<Width \div 2, Height \div 2>>,
                  <<Width \div 2 + 100, Height \div 2>> }

\* The arguments of one hsvToRgb call.
Hsv(h, s, v) == [h |-> h, s |-> s, v |-> v]

\* RotatingPolygons.render: one call for each polygon.
RotatingPolygons_hsv(a) ==
    { Hsv(Remainder(TruncDiv(a.time * 3, 5) + i * 1200 + a.params.colorShift * 60, 6000),
          800, 900) : i \in 0..(a.params.numPolygons - 1) }

\* WaveInterference.render, rainbow branch: `normalized` of the pixel, in
\* 1/10000; dx, dy and distance are in tenths of a pixel.
WaveInterference_normalized(a, pixel) ==
    LET dx == TruncDiv(pixel[1] * 100 - a.centerX, 10)
        dy == TruncDiv(pixel[2] * 100 - a.centerY, 10)
        distance == Sqrt(dx * dx + dy * dy)
        wave1 == Sin(distance * a.params.frequency1 - a.time * a.params.waveSpeed)
        wave2 == Sin(distance * a.params.frequency2
                       - TruncDiv(a.time * a.params.waveSpeed * 3, 2))
        combined == TruncDiv(wave1 + wave2, 2)
    IN TruncDiv(combined + 10000, 2)

WaveInterference_hsv(a) ==
    { LET normalized == WaveInterference_normalized(a, pixel)
      IN Hsv(Remainder(TruncDiv(normalized * 3, 5) + TruncDiv(a.time * 6, 100), 6000),
             800, TruncDiv(normalized, 10)) : pixel \in SamplePixels }

\* ParticleSystem.render, velocity branch: one call for each particle.
ParticleSystem_hsv(a) ==
    { LET speed == Sqrt(a.particles[i].vx * a.particles[i].vx
                          + a.particles[i].vy * a.particles[i].vy)
      IN Hsv(Remainder(speed * 3, 6000), 1000, 1000) : i \in 1..Len(a.particles) }

\* PerlinNoise.render, rainbow branch: `normalized` of the pixel, in 1/10000,
\* at the noiseOffset render has advanced.
PerlinNoise_normalized(a, pixel) ==
    LET noiseValue == fractalNoise(a.permutation,
                                   pixel[1] * a.params.scale * 10,
                                   pixel[2] * a.params.scale * 10,
                                   PerlinNoise_render(a).noiseOffset,
                                   a.params.octaves, a.params.persistence,
                                   a.params.lacunarity)
    IN TruncDiv(noiseValue + 10000, 2)

PerlinNoise_hsv(a) ==
    { LET normalized == PerlinNoise_normalized(a, pixel)
      IN Hsv(Remainder(TruncDiv(normalized * 3, 5) + TruncDiv(a.time * 6, 100), 6000),
             800, TruncDiv(normalized * a.params.brightness, 100)) : pixel \in SamplePixels }

\* Fractal.render: the point of the plane a pixel stands for, in thousandths.
Fractal_point(a, pixel) ==
    LET span == a.zoom * Min(a.width, a.height)
    IN [x |-> TruncDiv((pixel[1] - a.width \div 2) * 4000000, span) + a.centerX * 10,
        y |-> TruncDiv((pixel[2] - a.height \div 2) * 4000000, span) + a.centerY * 10]

\* Fractal.render, rainbow branch: one call for each pixel whose iterations
\* are not 0.
Fractal_hsv(a) ==
    LET iterations(pixel) ==
            Fractal_iterations(a, Fractal_point(a, pixel).x, Fractal_point(a, pixel).y)
    IN { Hsv(Remainder(TruncDiv(iterations(pixel) * a.params.contrast * 6,
                                a.params.maxIterations)
                         + TruncDiv(a.colorOffset * 3, 50), 6000),
             800, a.params.brightness * 100) :
           pixel \in { q \in SamplePixels : iterations(q) # 0 } }

\* Spirograph.render: one call for each point of the trail, the point render
\* has just pushed included.
Spirograph_hsv(a) ==
    LET trail == Spirograph_pushed(a)
    IN { Hsv(Remainder(TruncDiv(trail[i].time * 6, 100) + a.params.colorShift * 60, 6000),
             800, ((i - 1) * 1000) \div Len(trail)) : i \in 1..Len(trail) }

\* The arguments of the hsvToRgb calls a.render() makes (for WaveInterference,
\* PerlinNoise and Fractal, those for the pixels followed).
HsvCalls(a) ==
    CASE a.type = "rotating_polygons" -> RotatingPolygons_hsv(a)
      [] a.type = "spirograph" -> Spirograph_hsv(a)
      [] a.type = "wave_interference" /\ ColorBranch(a) = "rainbow" -> WaveInterference_hsv(a)
      [] a.type = "particle_system" /\ ColorBranch(a) = "velocity" -> ParticleSystem_hsv(a)
      [] a.type = "perlin_noise" /\ ColorBranch(a) = "rainbow" -> PerlinNoise_hsv(a)
      [] a.type = "fractal" /\ ColorBranch(a) = "rainbow" -> Fractal_hsv(a)
      [] OTHER -> {}

\* ----------------------------------------------------------------- factory
\* The names every object inherits from Object.prototype that ANIMATIONS[type]
\* finds: the Object constructor, and methods that are no constructors.
InheritedConstructors == {"constructor"}
InheritedMethods == {"toString", "hasOwnProperty"}

\* What createAnimation(type, canvas, params) does for a key:
\*   "instance"     it returns a new instance of the variant;
\*   "unknown_type" it throws Error(`Unknown animation type: ...`);
\*   "not_animation" ANIMATIONS[type] is Object, and new Object(canvas, params)
\*                  returns the canvas: no error, and no animation;
\*   "type_error"   ANIMATIONS[type] is truthy and no constructor: new throws
\*                  a TypeError.
createAnimation(type) ==
    CASE type \in Types                 -> "instance"
      [] type \in InheritedConstructors -> "not_animation"
      [] type \in InheritedMethods      -> "type_error"
      [] OTHER                          -> "unknown_type"

\* ------------------------------------------------------------------ driver
\* PsychedelicApp.reset: reset(), then initializeParticles() where the instance
\* has that method (a ParticleSystem), then the trail emptied where the instance
\* has trailPoints (a Spirograph; an array is truthy even when empty).
App_reset(a) ==
    LET b == reset(a)
        c == IF b.type = "particle_system" THEN initializeParticles(b) ELSE { b }
    IN { IF p.type = "spirograph" THEN [p EXCEPT !.trailPoints = <<>>] ELSE p : p \in c }

\* One call of the animation loop's animate callback: update(deltaTime), then
\* render().
animate(a, deltaTime) == render(update(a, deltaTime))

\* n successive calls of animate, each with the same deltaTime: the first half
\* of the run, then the rest of it from the instance the first half left.
\* (Reading a field of that instance has it computed before the rest is entered,
\* which keeps the evaluation of a long run shallow.)
RECURSIVE animateFrames(_, _, _)
animateFrames(a, deltaTime, n) ==
    CASE n = 0 -> a
      [] n = 1 -> animate(a, deltaTime)
      [] OTHER -> LET half == animateFrames(a, deltaTime, n \div 2) IN
                  IF half.type = a.type
                  THEN animateFrames(half, deltaTime, n - (n \div 2))
                  ELSE half

\* ------------------------------------------------------------------ inputs
\* The deltaTime update is called with: the driver passes the difference of two
\* successive frame timestamps, which is zero or more.
DeltaTimes == {0, FrameDelta}

\* The keys createAnimation is called with.
TypeKeys == Types \cup {"combination", "constructor", "toString"}

\* The params the constructor is called with: none, as the driver does, or an
\* override; a particle system is given a particleCount the model can hold.
CtorParams(type) ==
    IF type = "particle_system"
    THEN { [particleCount |-> MaxParticles] }
    ELSE { EmptyObject }

\* The patches updateParams is called with: a new speed together with a key
\* in no schema, a negative speed, and values for the parameters the variant's
\* update and render read. (A particle system's update reads no speed beyond
\* Animation.update's; its patches are the physics parameters and particleCount.)
Patches(type) ==
    CASE type = "rotating_polygons" ->
           { [speed |-> 20, foo |-> 7], [speed |-> -10], [rotationSpeed |-> 25] }
      [] type = "particle_system" ->
           { [trailLength |-> 1, foo |-> 7], [particleCount |-> 0],
             [gravity |-> -50, bounceDamping |-> -80, airDamping |-> 1500] }
      [] type = "fractal" ->
           { [speed |-> 20, foo |-> 7], [speed |-> -10], [centerX |-> 100, centerY |-> -50] }
      [] type = "spirograph" ->
           { [speed |-> 20, foo |-> 7], [speed |-> -10], [d |-> 250] }
      [] type = "perlin_noise" ->
           { [speed |-> 20, foo |-> 7], [speed |-> -10], [timeSpeed |-> 25] }
      [] OTHER ->
           { [speed |-> 20, foo |-> 7], [speed |-> -10], [colorMode |-> "monochrome"] }

\* The lengths of the uninterrupted runs of the animation loop: one frame short
\* of filling a Spirograph's trail, and filling it.
FrameRuns == {TrailCap - 1, TrailCap}

\* A call: its name, then update's deltaTime, updateParams' patch,
\* createAnimation's key and what createAnimation did.
Call(op, deltaTime, newParams, key, outcome) ==
    [op |-> op, deltaTime |-> deltaTime, newParams |-> newParams,
     key |-> key, outcome |-> outcome]

\* ----------------------------------------------------------------- actions
Init ==
    \E type \in Types : \E params \in CtorParams(type) :
        /\ anim \in Construct(type, params)
        /\ last = Call("createAnimation", 0, EmptyObject, type, "instance")
        /\ updates = 0
        /\ renders = 0

CreateAnimation ==
    \E type \in TypeKeys :
        /\ last' = Call("createAnimation", 0, EmptyObject, type, createAnimation(type))
        /\ IF createAnimation(type) = "instance"
           THEN /\ \E params \in CtorParams(type) : anim' \in Construct(type, params)
                /\ updates' = 0
                /\ renders' = 0
           ELSE UNCHANGED <<anim, updates, renders>>

Play ==
    /\ anim' = play(anim)
    /\ last' = Call("play", 0, EmptyObject, "", "")
    /\ UNCHANGED <<updates, renders>>

Pause ==
    /\ anim' = pause(anim)
    /\ last' = Call("pause", 0, EmptyObject, "", "")
    /\ UNCHANGED <<updates, renders>>

Update ==
    \E deltaTime \in DeltaTimes :
        /\ updates < MaxUpdates
        /\ anim' = update(anim, deltaTime)
        /\ last' = Call("update", deltaTime, EmptyObject, "", "")
        /\ updates' = IF anim.isPlaying THEN updates + 1 ELSE updates
        /\ UNCHANGED renders

Render ==
    /\ renders < MaxRenders
    /\ anim' = render(anim)
    /\ last' = Call("render", 0, EmptyObject, "", "")
    /\ renders' = IF render(anim) # anim THEN renders + 1 ELSE renders
    /\ UNCHANGED updates

Reset ==
    /\ anim' = reset(anim)
    /\ last' = Call("reset", 0, EmptyObject, "", "")
    /\ UNCHANGED <<updates, renders>>

UpdateParams ==
    \E newParams \in Patches(anim.type) :
        /\ anim' = updateParams(anim, newParams)
        /\ last' = Call("updateParams", 0, newParams, "", "")
        /\ UNCHANGED <<updates, renders>>

InitializeParticles ==
    /\ anim.type = "particle_system"
    /\ anim' \in initializeParticles(anim)
    /\ last' = Call("initializeParticles", 0, EmptyObject, "", "")
    /\ UNCHANGED <<updates, renders>>

AppReset ==
    /\ anim' \in App_reset(anim)
    /\ last' = Call("App.reset", 0, EmptyObject, "", "")
    /\ UNCHANGED <<updates, renders>>

Next ==
    \/ CreateAnimation
    \/ Play
    \/ Pause
    \/ Update
    \/ Render
    \/ Reset
    \/ UpdateParams
    \/ InitializeParticles
    \/ AppReset

Spec == Init /\ [][Next]_vars

\* ------------------------------------------------- long runs of a Spirograph
\* A Spirograph, as the driver constructs it.
InitTrail ==
    /\ anim \in Construct("spirograph", EmptyObject)
    /\ last = Call("createAnimation", 0, EmptyObject, "spirograph", "instance")
    /\ updates = 0
    /\ renders = 0

\* The animation loop left running on a fresh instance for n frames.
AnimateFrames ==
    \E n \in FrameRuns :
        /\ anim.trailPoints = <<>>
        /\ updates = 0
        /\ anim' = animateFrames(anim, FrameDelta, n)
        /\ last' = Call("animate", FrameDelta, EmptyObject, "", "")
        /\ UNCHANGED <<updates, renders>>

NextTrail ==
    \/ Play
    \/ Pause
    \/ AnimateFrames
    \/ Update
    \/ Render

SpecTrail == InitTrail /\ [][NextTrail]_vars

\* ------------------------------------------------- evaluation of a Fractal
\* The families Fractal.render's switch names.
FractalTypes == {"mandelbrot", "julia", "burning_ship"}

\* The coordinates of the points evaluated, in thousandths: inside the sets,
\* on the canvas at the default centre and zoom, and far out (where a centre
\* parameter beyond its slider's range puts the canvas).
CoordinatesX == {-2000, -700, 0, 300, 3000, 20000}
CoordinatesY == {-1000, 0, 500}

\* The evaluation of one point (x, y) by the instance: before the evaluator
\* has returned, and after, with the iterations it returned.
Evaluation(x, y, returned, iterations) ==
    [op |-> "iterations", x |-> x, y |-> y, returned |-> returned, iterations |-> iterations]

\* A Fractal constructed with a family and a maxIterations, and a point of
\* the plane it is about to evaluate.
InitFractal ==
    \E fractalType \in FractalTypes, maxIterations \in 1..MaxIterationsBound :
        \E x \in CoordinatesX, y \in CoordinatesY :
            /\ anim \in Construct("fractal", [fractalType |-> fractalType,
                                               maxIterations |-> maxIterations])
            /\ last = Evaluation(x, y, FALSE, 0)
            /\ updates = 0
            /\ renders = 0

\* Fractal.render's evaluation of the point.
Evaluate ==
    /\ ~last.returned
    /\ last' = Evaluation(last.x, last.y, TRUE, Fractal_iterations(anim, last.x, last.y))
    /\ UNCHANGED <<anim, updates, renders>>

NextFractal == Evaluate

SpecFractal == InitFractal /\ [][NextFractal]_vars

\* Whether the orbit of the point (cx, cy) under an evaluator's iteration,
\* now at (x, y), exceeds squared magnitude 4 now or within n more iterations.
RECURSIVE OrbitExceeds(_, _, _, _, _, _)
OrbitExceeds(family, x, y, cx, cy, n) ==
    LET next == OrbitStep(family, x, y, cx, cy)
    IN \/ (x * x) \div 1000 + (y * y) \div 1000 > 4000
       \/ n > 0 /\ OrbitExceeds(family, next.x, next.y, cx, cy, n - 1)

\* Whether the orbit of the point (x, y) under the instance's family exceeds
\* squared magnitude 4 within maxIterations iterations.
Fractal_orbitExceeds(a, x, y, maxIterations) ==
    CASE a.params.fractalType = "julia" ->
           OrbitExceeds("julia", x, y, JuliaC.r, JuliaC.i, maxIterations)
      [] a.params.fractalType = "burning_ship" ->
           OrbitExceeds("burning_ship", 0, 0, x, y, maxIterations)
      [] OTHER -> OrbitExceeds("mandelbrot", 0, 0, x, y, maxIterations)

\* ---------------------------------------------------- colours of an instance
\* The arguments hsvToRgb is called with: the six sixths of the colour wheel,
\* hues between them, and the saturations and values the renders pass.
Hues == {0, 1000, 2000, 3000, 4000, 5000, 500, 3500, 5999}
Saturations == {0, 800, 1000}
Values == {0, 900, 1000}

\* A call of hsvToRgb on the instance, and the channels it returned.
HsvCall(h, s, v, rgb) == [op |-> "hsvToRgb", h |-> h, s |-> s, v |-> v, rgb |-> rgb]

\* instance.hsvToRgb(h, s, v): the instance is neither read nor written.
HsvToRgb ==
    \E h \in Hues, s \in Saturations, v \in Values :
        /\ last' = HsvCall(h, s, v, hsvToRgb(h, s, v))
        /\ UNCHANGED <<anim, updates, renders>>

NextColor ==
    \/ Play
    \/ Pause
    \/ Update
    \/ HsvToRgb

SpecColor == Init /\ [][NextColor]_vars

\* ------------------------------------------------------ what a render draws
\* The patches updateParams is given before a render: for each enum parameter a
\* value that is none of its options and one that is, and for the parameters a
\* colour is computed from, the ends of the range their descriptor declares.
DrawPatches(type) ==
    CASE type = "rotating_polygons" -> { [colorShift |-> 100], [numPolygons |-> 10] }
      [] type = "wave_interference" ->
           { [colorMode |-> "plasma"], [colorMode |-> "monochrome"], [waveSpeed |-> 30] }
      [] type = "particle_system" -> { [colorMode |-> "plasma"], [colorMode |-> "white"] }
      [] type = "perlin_noise" ->
           { [colorMode |-> "plasma"], [colorMode |-> "fire"], [brightness |-> 20] }
      [] type = "fractal" ->
           { [colorMode |-> "plasma"], [colorMode |-> "ocean"], [fractalType |-> "newton"],
             [fractalType |-> "julia"], [brightness |-> 20] }
      [] type = "spirograph" -> { [colorShift |-> 100] }

\* A render: the branch of the colour dispatch it took, and the arguments of
\* the hsvToRgb calls it made.
Drawn(colour, hsv) == [op |-> "render", outcome |-> "drawn", colour |-> colour, hsv |-> hsv]

\* Whether every parameter of the instance that has a descriptor is inside the
\* descriptor's range, or one of its options.
InSchemaRange(a) ==
    LET schema == getControlSchema(a.type)
    IN \A k \in DOMAIN schema :
          IF schema[k].type = "range"
          THEN schema[k].min <= a.params[k] /\ a.params[k] <= schema[k].max
          ELSE a.params[k] \in schema[k].options

PatchBeforeDraw ==
    \E newParams \in DrawPatches(anim.type) :
        /\ anim' = updateParams(anim, newParams)
        /\ last' = Call("updateParams", 0, newParams, "", "")
        /\ UNCHANGED <<updates, renders>>

\* instance.render(), with the branch of the colour dispatch it took and the
\* hsvToRgb calls it made.
Draw ==
    /\ renders < MaxRenders
    /\ anim' = render(anim)
    /\ last' = Drawn(ColorBranch(anim), HsvCalls(anim))
    /\ renders' = renders + 1
    /\ UNCHANGED updates

NextDraw ==
    \/ Play
    \/ Pause
    \/ Update
    \/ PatchBeforeDraw
    \/ Draw

SpecDraw == Init /\ [][NextDraw]_vars

\* ------------------------------------------------ noise of a PerlinNoise
\* The coordinates noise is called with, in 1/10000: negative ones, fractions,
\* the last cell of the table (255.x), the first beyond it, and a distant one.
NoiseCoordinates == {-2560001, -1, 0, 5000, 2559999, 2560000, 100000000}

\* A call of noise on the instance, and the indices it read the table at.
NoiseCall(x, y, z, reads) == [op |-> "noise", x |-> x, y |-> y, z |-> z, reads |-> reads]

\* A PerlinNoise, as the driver constructs it.
InitNoise ==
    /\ anim \in Construct("perlin_noise", EmptyObject)
    /\ last = Call("createAnimation", 0, EmptyObject, "perlin_noise", "instance")
    /\ updates = 0
    /\ renders = 0

\* instance.noise(x, y, z).
Noise ==
    \E x \in NoiseCoordinates, y \in NoiseCoordinates, z \in NoiseCoordinates :
        /\ last' = NoiseCall(x, y, z, NoiseReads(anim.permutation, x, y, z))
        /\ UNCHANGED <<anim, updates, renders>>

NextNoise == Noise

SpecNoise == InitNoise /\ [][NextNoise]_vars

\* ------------------------------------------------- the mixer-capable driver
\* The PsychedelicApp of src/animations.js. Under SpecMixer the variable anim
\* holds the driver's fields: animation, combinationAnimation, mixerMode and
\* the value of the animationType select; last is the UI event handled last
\* and how its handler ended.

\* null.
Null == [type |-> "null"]

\* The own keys of the ANIMATIONS registry of src/animations.js.
MixerRegistry == {"rotating_polygons", "wave_interference", "particle_system", "spirograph"}

\* createAnimation(type, canvas, params) of src/animations.js: whether it
\* returns an instance or throws Error(`Unknown animation type: ...`).
Mixer_createAnimation(type) ==
    IF type \in MixerRegistry THEN "instance" ELSE "unknown_type"

\* The fields of the driver.
App(animation, combinationAnimation, mixerMode, animationType) ==
    [animation |-> animation, combinationAnimation |-> combinationAnimation,
     mixerMode |-> mixerMode, animationType |-> animationType]

\* A UI event and how its handler ended: "ok", "Error" (createAnimation
\* threw) or "TypeError" (a property of null was read).
UiEvent(op, outcome) == [op |-> op, outcome |-> outcome]

\* A handler's end: the driver as it leaves it, and how it ended.
Ended(app, outcome) == [app |-> app, outcome |-> outcome]

\* The animation togglePlayPause, updatePlayPauseButton and reset operate on.
currentAnimation(app) == IF app.mixerMode THEN app.combinationAnimation ELSE app.animation

\* PsychedelicApp.updatePlayPauseButton: it reads currentAnimation.isPlaying.
updatePlayPauseButton(app) ==
    IF currentAnimation(app) = Null THEN Ended(app, "TypeError") ELSE Ended(app, "ok")

\* PsychedelicApp.setupAnimationControls, then updatePlayPauseButton: the
\* former reads this.animation.getControlSchema() outside mixer mode.
SetupControls(app) ==
    IF ~(app.mixerMode /\ app.combinationAnimation # Null) /\ app.animation = Null
    THEN Ended(app, "TypeError")
    ELSE updatePlayPauseButton(app)

\* PsychedelicApp.createAnimation(type): the ends it can come to.
Mixer_App_createAnimation(app, type) ==
    LET paused == IF app.animation # Null
                  THEN [app EXCEPT !.animation = pause(app.animation)]
                  ELSE app
    IN IF Mixer_createAnimation(type) = "instance"
       THEN { SetupControls([paused EXCEPT !.animation = play(instance)]) :
                instance \in UNION { Construct(type, params) : params \in CtorParams(type) } }
       ELSE { Ended(paused, "Error") }

\* PsychedelicApp.createCombinationAnimation.
createCombinationAnimation(app) ==
    LET paused == IF app.animation # Null
                  THEN [app EXCEPT !.animation = pause(app.animation)]
                  ELSE app
    IN IF Mixer_createAnimation("combination") = "instance"
       THEN { SetupControls([paused EXCEPT !.combinationAnimation = play(instance)]) :
                instance \in Construct("combination", EmptyObject) }
       ELSE { Ended(paused, "Error") }

\* PsychedelicApp.toggleMixerMode.
toggleMixerMode(app) ==
    LET toggled == [app EXCEPT !.mixerMode = ~app.mixerMode]
        single == IF toggled.combinationAnimation # Null
                  THEN [toggled EXCEPT !.combinationAnimation = Null]
                  ELSE toggled
    IN IF toggled.mixerMode
       THEN createCombinationAnimation(toggled)
       ELSE Mixer_App_createAnimation(single, single.animationType)

\* The change handler of the animationType select, for the value selected.
animationTypeChange(app, type) ==
    LET selected == [app EXCEPT !.animationType = type]
    IN IF selected.mixerMode
       THEN IF selected.combinationAnimation # Null
            THEN { SetupControls([selected EXCEPT !.combinationAnimation =
                                     updateParams(selected.combinationAnimation,
                                                  [animation1 |-> type])]) }
            ELSE { Ended(selected, "ok") }
       ELSE Mixer_App_createAnimation(selected, type)

\* PsychedelicApp.togglePlayPause.
togglePlayPause(app) ==
    LET current == currentAnimation(app)
        toggled == IF current.isPlaying THEN pause(current) ELSE play(current)
    IN IF current = Null
       THEN Ended(app, "TypeError")
       ELSE updatePlayPauseButton(IF app.mixerMode
                                  THEN [app EXCEPT !.combinationAnimation = toggled]
                                  ELSE [app EXCEPT !.animation = toggled])

\* PsychedelicApp.reset of src/animations.js.
Mixer_App_reset(app) ==
    IF currentAnimation(app) = Null
    THEN { Ended(app, "TypeError") }
    ELSE { Ended(IF app.mixerMode
                 THEN [app EXCEPT !.combinationAnimation = instance]
                 ELSE [app EXCEPT !.animation = instance], "ok") :
             instance \in App_reset(currentAnimation(app)) }

\* One call of the animation loop's animate callback of src/animations.js.
Mixer_animate(app, deltaTime) ==
    CASE app.mixerMode /\ app.combinationAnimation # Null ->
           [app EXCEPT !.combinationAnimation = animate(app.combinationAnimation, deltaTime)]
      [] app.animation # Null ->
           [app EXCEPT !.animation = animate(app.animation, deltaTime)]
      [] OTHER -> app

\* new PsychedelicApp(): createAnimation('rotating_polygons') on a driver
\* whose fields are null and false.
InitMixer ==
    \E end \in Mixer_App_createAnimation(App(Null, Null, FALSE, "rotating_polygons"),
                                         "rotating_polygons") :
        /\ anim = end.app
        /\ last = UiEvent("constructor", end.outcome)
        /\ updates = 0
        /\ renders = 0

ToggleMixerMode ==
    \E end \in toggleMixerMode(anim) :
        /\ anim' = end.app
        /\ last' = UiEvent("mixerToggle", end.outcome)
        /\ UNCHANGED <<updates, renders>>

AnimationTypeChange ==
    \E type \in MixerRegistry : \E end \in animationTypeChange(anim, type) :
        /\ anim' = end.app
        /\ last' = UiEvent("animationType", end.outcome)
        /\ UNCHANGED <<updates, renders>>

TogglePlayPause ==
    /\ anim' = togglePlayPause(anim).app
    /\ last' = UiEvent("playPause", togglePlayPause(anim).outcome)
    /\ UNCHANGED <<updates, renders>>

MixerReset ==
    \E end \in Mixer_App_reset(anim) :
        /\ anim' = end.app
        /\ last' = UiEvent("reset", end.outcome)
        /\ UNCHANGED <<updates, renders>>

Frame ==
    /\ updates < MaxUpdates
    /\ anim' = Mixer_animate(anim, FrameDelta)
    /\ last' = UiEvent("animate", "ok")
    /\ updates' = updates + 1
    /\ UNCHANGED renders

NextMixer ==
    \/ ToggleMixerMode
    \/ AnimationTypeChange
    \/ TogglePlayPause
    \/ MixerReset
    \/ Frame

SpecMixer == InitMixer /\ [][NextMixer]_vars

\* ------------------------------------------------------------------ claims
\* C1: an instance of any variant is paused right after construction; play()
\* leaves it playing and pause() leaves it paused whatever the state before,
\* and neither changes the instance when it is already in that state (a second
\* play() or pause() changes nothing).
C1_PausedAtConstruction_PlayPauseIdempotent ==
    /\ [](last.op = "createAnimation" /\ last.outcome = "instance" => ~anim.isPlaying)
    /\ [][ /\ last'.op = "play" =>
                /\ anim'.isPlaying
                /\ anim' = [anim EXCEPT !.isPlaying = TRUE]
                /\ (anim.isPlaying => anim' = anim)
           /\ last'.op = "pause" =>
                /\ ~anim'.isPlaying
                /\ anim' = [anim EXCEPT !.isPlaying = FALSE]
                /\ (~anim.isPlaying => anim' = anim) ]_vars

\* play() has acted on an instance that has been through updates while playing.
C1_Witness == last.op = "play" /\ anim.isPlaying /\ anim.frame > 0

\* C2: while the instance is paused, update(deltaTime) changes no field of it,
\* for every variant and every deltaTime: time, frame, params and every
\* variant's derived state stay as they were (so what render reads after any
\* number of paused updates is what it read before them).
C2_PausedUpdateIsNoOp ==
    [][ last'.op = "update" /\ ~anim.isPlaying => anim' = anim ]_vars

\* A paused particle system, with a particle, has been sent update(deltaTime # 0).
C2_Witness ==
    /\ last.op = "update" /\ last.deltaTime # 0 /\ ~anim.isPlaying
    /\ anim.type = "particle_system" /\ Len(anim.particles) > 0

\* C3: while the instance is playing, one update(deltaTime) adds exactly
\* deltaTime * params.speed (the speed before the call) to time and 1 to frame.
C3_PlayingUpdateAdvances ==
    [][ last'.op = "update" /\ anim.isPlaying =>
            /\ anim'.time = anim.time + last'.deltaTime * anim.params.speed
            /\ anim'.frame = anim.frame + 1 ]_vars

\* A playing instance whose speed was patched has been sent update(deltaTime # 0).
C3_Witness ==
    /\ last.op = "update" /\ last.deltaTime # 0 /\ anim.isPlaying
    /\ anim.params.speed = 20 /\ anim.frame > 1

\* C4, as claimed: while the instance is playing, no update or updateParams
\* call lowers time.
C4_TimeNeverDecreases ==
    [][ last'.op \in {"update", "updateParams"} /\ anim.isPlaying =>
            anim'.time >= anim.time ]_vars

\* C4, amended: updateParams never changes time, and while the instance is
\* playing an update whose deltaTime * params.speed is not negative does not
\* lower time.
C4_TimeNeverDecreases_NonNegativeStep ==
    [][ /\ last'.op = "updateParams" => anim'.time = anim.time
        /\ last'.op = "update" /\ anim.isPlaying
             /\ last'.deltaTime * anim.params.speed >= 0 =>
                anim'.time >= anim.time ]_vars

\* A playing instance, its speed raised mid-flight, has been sent a third
\* update with a positive deltaTime.
C4_Witness ==
    /\ last.op = "update" /\ last.deltaTime > 0 /\ anim.isPlaying
    /\ anim.params.speed = 20 /\ anim.frame > 2 /\ anim.time > 0

\* C5: after reset(), frame = 0 and time = 0 for every variant; a
\* RotatingPolygons instance also has rotationPhase = 0 and lastTime = 0, and a
\* Fractal instance zoom = 1, colorOffset = 0 and its centre at
\* params.centerX, params.centerY.
C5_ResetRestores ==
    last.op = "reset" =>
        /\ anim.frame = 0 /\ anim.time = 0
        /\ anim.type = "rotating_polygons" =>
              anim.rotationPhase = 0 /\ anim.lastTime = 0
        /\ anim.type = "fractal" =>
              /\ anim.zoom = 1000 /\ anim.colorOffset = 0
              /\ anim.centerX = anim.params.centerX
              /\ anim.centerY = anim.params.centerY

\* reset() has acted on a Fractal that had been updated while playing and whose
\* centre parameters had been patched.
C5_Witness ==
    /\ last.op = "reset" /\ anim.type = "fractal"
    /\ updates > 0 /\ anim.params.centerX = 100

\* C6: after reset() on a Spirograph instance, trailPoints is empty.
C6_SpirographResetEmptiesTrail ==
    last.op = "reset" /\ anim.type = "spirograph" => anim.trailPoints = <<>>

\* C7: after updateParams(patch), params[k] = patch[k] for every key of the
\* patch, in a schema or not, and every other key of params is still there
\* with the value it had: no updateParams call removes a key.
C7_UpdateParamsShallowMerge ==
    [][ last'.op = "updateParams" =>
            /\ \A k \in DOMAIN last'.newParams :
                  k \in DOMAIN anim'.params /\ anim'.params[k] = last'.newParams[k]
            /\ \A k \in DOMAIN anim.params \ DOMAIN last'.newParams :
                  k \in DOMAIN anim'.params /\ anim'.params[k] = anim.params[k] ]_vars

\* updateParams has stored a key that is in no schema and no default set.
C7_Witness ==
    /\ last.op = "updateParams" /\ "foo" \in DOMAIN last.newParams
    /\ "foo" \in DOMAIN anim.params /\ anim.params["foo"] = 7

\* C8: createAnimation(key) returns a new instance exactly for the six
\* registry keys and throws the unknown-animation-type error for every other
\* string, the names every object inherits included.
C8_UnknownKeyThrows ==
    last.op = "createAnimation" =>
        IF last.key \in Types
        THEN last.outcome = "instance"
        ELSE last.outcome = "unknown_type"

C10_TrailWithinTrailLength ==
    anim.type = "particle_system" /\ last.op = "update" =>
        \A i \in 1..Len(anim.particles) :
            Len(anim.particles[i].trail) <= anim.params.trailLength

\* C11: a Spirograph's trailPoints never holds more than 2000 entries, and a
\* render() call leaves the trail it found, less as many of its oldest entries
\* as the cap requires, followed by the point it sampled, if it sampled one.
C11_TrailCapDiscardsOldest ==
    /\ [](anim.type = "spirograph" => Len(anim.trailPoints) <= TrailCap)
    /\ [][ last'.op = "render" /\ anim.type = "spirograph" =>
              LET old == anim.trailPoints
                  new == anim'.trailPoints
                  point == Spirograph_point(anim)
                  sampled == IF InCanvas(anim, point) THEN 1 ELSE 0
                  discarded == Max(0, Len(old) + sampled - TrailCap)
              IN /\ Len(new) = Len(old) - discarded + sampled
                 /\ \A i \in 1..(Len(old) - discarded) : new[i] = old[i + discarded]
                 /\ sampled = 1 => new[Len(new)] = point ]_vars

\* render() has acted on a full trail sampled while playing: the first sample
\* of the run is gone and the trail is full again.
C11_Witness ==
    /\ last.op = "render" /\ anim.type = "spirograph"
    /\ Len(anim.trailPoints) = TrailCap
    /\ anim.trailPoints[1].time > FrameDelta * anim.params.speed * anim.params.spiralSpeed
    /\ anim.trailPoints[TrailCap].time > anim.trailPoints[1].time

\* C12: the render() call that immediately follows updateParams(patch) draws
\* from the patched value of every parameter of the variant's control schema
\* that the patch holds, in either play state and with no update() in between.
C12_RenderDrawsPatchedValue ==
    [][ last.op = "updateParams" /\ last'.op = "render" =>
            \A k \in DOMAIN last.newParams \cap DOMAIN getControlSchema(anim.type) :
                /\ k \in DOMAIN Drawing(anim).params
                /\ Drawing(anim).params[k] = last.newParams[k]
                /\ k = "particleCount" =>
                      Len(Drawing(anim).fields.particles) = last.newParams[k] ]_vars

\* C13: render() does all of its work in either play state: what it draws and
\* what it leaves in the instance are what it would draw and leave were the
\* play state the other one; and no render() call changes time, frame,
\* isPlaying or params.
C13_RenderIgnoresPlayState ==
    [][ last'.op = "render" =>
            LET other == [anim EXCEPT !.isPlaying = ~anim.isPlaying] IN
            /\ anim'.time = anim.time
            /\ anim'.frame = anim.frame
            /\ anim'.isPlaying = anim.isPlaying
            /\ anim'.params = anim.params
            /\ Drawing(other) = Drawing(anim)
            /\ render(other) = [anim' EXCEPT !.isPlaying = ~anim.isPlaying] ]_vars

\* render() has acted on a paused PerlinNoise instance and advanced its noise
\* offset.
C13_Witness ==
    /\ last.op = "render" /\ ~anim.isPlaying
    /\ anim.type = "perlin_noise" /\ anim.noiseOffset > 0

\* C14: a Spirograph's render() pushes the curve position it computes, with
\* its curve time, when that position is inside [0, width) x [0, height), and
\* pushes nothing otherwise, in either play state; apart from the cap's
\* discarding of the oldest entry it leaves the stored points as they were;
\* update(), play(), pause() and updateParams() leave the trail alone; and
\* every stored point is inside [0, width) x [0, height).
C14_OnePointPerRender ==
    /\ [](anim.type = "spirograph" =>
            \A i \in 1..Len(anim.trailPoints) : InCanvas(anim, anim.trailPoints[i]))
    /\ [][ anim.type = "spirograph" /\ last'.op = "render" =>
              LET old == anim.trailPoints
                  new == anim'.trailPoints
                  point == Spirograph_point(anim)
              IN IF InCanvas(anim, point)
                 THEN /\ point.time = anim.time * anim.params.spiralSpeed
                      /\ \/ new = Append(old, point)
                         \/ Len(old) = TrailCap /\ new = Append(Tail(old), point)
                 ELSE new = old ]_vars
    /\ [][ anim.type = "spirograph"
              /\ last'.op \in {"update", "play", "pause", "updateParams"} =>
              anim'.trailPoints = anim.trailPoints ]_vars

\* render() has pushed a point sampled after the pen offset was patched and
\* the curve had advanced: a position inside the canvas, with its curve time.
C14_Witness ==
    /\ last.op = "render" /\ anim.type = "spirograph"
    /\ anim.params.d = 250
    /\ Len(anim.trailPoints) = 1
    /\ anim.trailPoints[1].time > 0

\* C15, as claimed: the default parameters of every variant hold the base
\* entries with the base values, speed 1.0, trails false and trailFade 0.95.
C15_DefaultsKeepBaseValues ==
    \A k \in DOMAIN AnimationDefaultParams :
        /\ k \in DOMAIN getDefaultParams(anim.type)
        /\ getDefaultParams(anim.type)[k] = AnimationDefaultParams[k]

\* C15, amended: the default parameters of every variant hold every base key
\* and keys of the variant's own; speed and trails have the base values in
\* every variant, and trailFade has the base value in every variant but
\* Spirograph, whose default trailFade is 0.99; an instance constructed with no
\* override has exactly these parameters.
C15_DefaultsExtendBase ==
    LET defaults == getDefaultParams(anim.type) IN
    /\ DOMAIN AnimationDefaultParams \subseteq DOMAIN defaults
    /\ DOMAIN defaults # DOMAIN AnimationDefaultParams
    /\ \A k \in DOMAIN AnimationDefaultParams :
          IF anim.type = "spirograph" /\ k = "trailFade"
          THEN defaults[k] = 990
          ELSE defaults[k] = AnimationDefaultParams[k]
    /\ last.op = "createAnimation" /\ last.outcome = "instance"
          /\ anim.type # "particle_system" => anim.params = defaults

\* A Spirograph has been constructed with no override: its trailFade is its
\* own default and its speed and trails are the base defaults.
C15_Witness ==
    /\ last.op = "createAnimation" /\ last.outcome = "instance"
    /\ anim.type = "spirograph"
    /\ anim.params.trailFade = 990 /\ anim.params.speed = 10 /\ ~anim.params.trails

\* C16: every key of a variant's control schema is a key of its default
\* parameters (and of the params of every instance of the variant); the
\* default under a range descriptor is a number, and the default under a
\* select descriptor is one of the descriptor's options.
C16_SchemaKeysHaveDefaults ==
    LET schema == getControlSchema(anim.type)
        defaults == getDefaultParams(anim.type)
    IN \A k \in DOMAIN schema :
          /\ k \in DOMAIN defaults
          /\ k \in DOMAIN anim.params
          /\ schema[k].type \in {"range", "select"}
          /\ schema[k].type = "range" => defaults[k] \in Int
          /\ schema[k].type = "select" =>
                defaults[k] \in STRING /\ defaults[k] \in schema[k].options

\* A Fractal, the variant with two select descriptors, after its parameters
\* were patched.
C16_Witness ==
    /\ anim.type = "fractal" /\ last.op = "updateParams"
    /\ anim.params.fractalType \in getControlSchema(anim.type).fractalType.options
    /\ anim.params.colorMode \in getControlSchema(anim.type).colorMode.options

\* C17: for a RotatingPolygons instance, updateParams leaves rotationPhase as
\* it was, whatever it patches; lastTime is the time at which the phase was
\* last sampled, which is the current time; and an update while playing adds
\* to rotationPhase exactly (time after the update - lastTime before it) *
\* rotationSpeed * 0.01, with the rotationSpeed current at the update.
C17_PhaseAccumulates ==
    /\ [](anim.type = "rotating_polygons" => anim.lastTime = anim.time)
    /\ [][ anim.type = "rotating_polygons" /\ last'.op = "updateParams" =>
              anim'.rotationPhase = anim.rotationPhase /\ anim'.lastTime = anim.lastTime ]_vars
    /\ [][ anim.type = "rotating_polygons" /\ last'.op = "update" /\ anim.isPlaying =>
              /\ anim'.rotationPhase =
                    anim.rotationPhase
                      + (anim'.time - anim.lastTime) * anim.params.rotationSpeed
              /\ anim'.lastTime = anim'.time ]_vars

\* A playing RotatingPolygons instance has been updated under the default
\* rotationSpeed and then under a patched one: its phase is not what the
\* patched speed would have earned over the whole elapsed time.
C17_Witness ==
    /\ anim.type = "rotating_polygons" /\ last.op = "update" /\ anim.isPlaying
    /\ anim.params.rotationSpeed = 25 /\ anim.frame > 1
    /\ anim.rotationPhase > 0
    /\ anim.rotationPhase < anim.time * anim.params.rotationSpeed

\* C18: the particles of a ParticleSystem change only through update, which
\* moves them and neither adds nor removes one, and initializeParticles:
\* reset(), play(), pause(), updateParams() and render() leave every particle's
\* position, velocity and trail as they were; and initializeParticles (in the
\* constructor, on its own or from the driver's reset) leaves exactly
\* params.particleCount particles, each with an empty trail.
C18_ParticlesOnlyReinitialized ==
    /\ [][ anim.type = "particle_system"
              /\ last'.op \in {"reset", "play", "pause", "updateParams", "render"} =>
              anim'.particles = anim.particles ]_vars
    /\ [][ anim.type = "particle_system" /\ last'.op = "update" =>
              Len(anim'.particles) = Len(anim.particles) ]_vars
    /\ [](/\ anim.type = "particle_system"
           /\ \/ last.op \in {"initializeParticles", "App.reset"}
              \/ last.op = "createAnimation" /\ last.outcome = "instance"
           => /\ Len(anim.particles) = anim.params.particleCount
              /\ \A i \in 1..Len(anim.particles) : anim.particles[i].trail = <<>>)

\* initializeParticles has acted on a ParticleSystem that had been updated
\* while playing.
C18_Witness ==
    /\ anim.type = "particle_system" /\ last.op = "initializeParticles"
    /\ anim.frame > 0 /\ Len(anim.particles) > 0

\* C19: for each family and every maxIterations >= 1, the evaluator returns 0
\* (the point is rendered black) exactly when the orbit of the point does not
\* exceed squared magnitude 4 within maxIterations iterations; a point whose
\* orbit does exceed it within maxIterations iterations gets a count that is
\* not 0.
C19_BlackIffNoEscape ==
    last.op = "iterations" /\ last.returned =>
        (last.iterations = 0 <=>
            ~Fractal_orbitExceeds(anim, last.x, last.y, anim.params.maxIterations))

\* C20: for a fixed point and family, the count the evaluator returns does not
\* decrease as maxIterations increases: the count under any smaller
\* maxIterations is at most the count returned.
C20_CountMonotonicInMaxIterations ==
    last.op = "iterations" /\ last.returned =>
        \A m1 \in 1..anim.params.maxIterations :
            Fractal_iterations([anim EXCEPT !.params.maxIterations = m1], last.x, last.y)
                <= last.iterations

\* C21: mandelbrot(0, 0, maxIter) returns 0 for every maxIter >= 1: the orbit
\* of the origin is at (0, 0) after maxIter passes of the loop, it does not
\* exceed squared magnitude 4 within maxIter iterations, and the evaluation of
\* the origin by a mandelbrot instance gives the 0 that render paints black.
C21_OriginNeverEscapes ==
    /\ \A maxIter \in 1..MaxIterationsBound :
          /\ mandelbrot(0, 0, maxIter) = 0
          /\ EscapeLoop("mandelbrot", 0, 0, 0, 0, 0, maxIter) =
                 [iter |-> maxIter, x2 |-> 0, y2 |-> 0]
          /\ OrbitStep("mandelbrot", 0, 0, 0, 0) = [x |-> 0, y |-> 0]
    /\ last.op = "iterations" /\ last.returned /\ last.x = 0 /\ last.y = 0
       /\ anim.params.fractalType = "mandelbrot"
           => /\ last.iterations = 0
              /\ ~Fractal_orbitExceeds(anim, 0, 0, anim.params.maxIterations)

C21_Witness ==
    /\ last.op = "iterations" /\ last.returned /\ last.x = 0 /\ last.y = 0
    /\ anim.params.fractalType = "mandelbrot"
    /\ anim.params.maxIterations = MaxIterationsBound
    /\ last.iterations = 0

\* C22: hsvToRgb(h, 1, 1) returns exactly (255,0,0), (255,255,0), (0,255,0),
\* (0,255,255), (0,0,255), (255,0,255) for h = 0, 1/6, 2/6, 3/6, 4/6, 5/6, on
\* an instance of any variant in any state; the call leaves the instance as it
\* was, and what it returns is determined by its three arguments.
C22_PureHues ==
    /\ [](last.op = "hsvToRgb" /\ last.s = 1000 /\ last.v = 1000 =>
            /\ last.h = 0    => last.rgb = <<255, 0, 0>>
            /\ last.h = 1000 => last.rgb = <<255, 255, 0>>
            /\ last.h = 2000 => last.rgb = <<0, 255, 0>>
            /\ last.h = 3000 => last.rgb = <<0, 255, 255>>
            /\ last.h = 4000 => last.rgb = <<0, 0, 255>>
            /\ last.h = 5000 => last.rgb = <<255, 0, 255>>)
    /\ [](last.op = "hsvToRgb" => last.rgb = hsvToRgb(last.h, last.s, last.v))
    /\ [][last'.op = "hsvToRgb" => anim' = anim]_vars

C22_Witness ==
    /\ last.op = "hsvToRgb" /\ last.h = 5000 /\ last.s = 1000 /\ last.v = 1000
    /\ last.rgb = <<255, 0, 255>>
    /\ anim.isPlaying /\ anim.time > 0

\* C23: a PerlinNoise's permutation table has 512 entries, its first 256 are a
\* permutation of 0..255 and entry 256 + i equals entry i; no call made on the
\* instance after construction (play, pause, update, render, reset,
\* updateParams, the driver's reset) changes the table.
C23_PermutationBuiltOnce ==
    /\ [](anim.type = "perlin_noise" =>
            /\ DOMAIN anim.permutation = 0..511
            /\ { anim.permutation[i] : i \in 0..255 } = 0..255
            /\ \A i \in 0..255 : anim.permutation[256 + i] = anim.permutation[i])
    /\ [][anim.type = "perlin_noise" /\ last'.op # "createAnimation"
            => anim'.permutation = anim.permutation]_vars

C23_Witness ==
    /\ anim.type = "perlin_noise"
    /\ last.op = "reset"
    /\ anim.noiseOffset > 0
    /\ updates > 0
    /\ anim.permutation[255] # 255
    /\ anim.permutation[0] # 0

\* C24: a render with an enum parameter whose value is none of the schema's
\* options raises no error and takes the final branch of the dispatch:
\* WaveInterference and PerlinNoise render grayscale, ParticleSystem renders
\* white, Fractal renders monochrome, and a Fractal with such a fractalType
\* evaluates its points as mandelbrot does.
C24_UnknownEnumTakesDefaultBranch ==
    last.op = "render" =>
        /\ last.outcome = "drawn"
        /\ anim.type \in {"wave_interference", "perlin_noise", "particle_system", "fractal"}
           /\ anim.params.colorMode \notin getControlSchema(anim.type).colorMode.options
              => last.colour = CASE anim.type = "particle_system" -> "white"
                                 [] anim.type = "fractal" -> "monochrome"
                                 [] OTHER -> "grayscale"
        /\ anim.type = "fractal"
           /\ anim.params.fractalType \notin getControlSchema(anim.type).fractalType.options
              => \A x \in CoordinatesX, y \in CoordinatesY :
                    Fractal_iterations(anim, x, y) = mandelbrot(x, y, anim.params.maxIterations)

C24_Witness ==
    /\ last.op = "render" /\ last.outcome = "drawn"
    /\ anim.type = "perlin_noise"
    /\ anim.params.colorMode = "plasma"
    /\ last.colour = "grayscale"

\* C25: with every parameter inside the range (or among the options) its
\* control schema declares and a time that is not negative, every hsvToRgb call
\* a render makes passes a hue in [0, 1) and a saturation and a value in
\* [0, 1], and every channel hsvToRgb returns for it is a whole number in
\* 0..255.
C25_RenderColoursInRange ==
    last.op = "render" /\ InSchemaRange(anim) /\ anim.time >= 0 =>
        \A call \in last.hsv :
            /\ 0 <= call.h /\ call.h < 6000
            /\ 0 <= call.s /\ call.s <= 1000
            /\ 0 <= call.v /\ call.v <= 1000
            /\ \A i \in 1..3 : hsvToRgb(call.h, call.s, call.v)[i] \in 0..255

\* C26: for each variant, the default value of every parameter that has a
\* range descriptor lies within the descriptor's [min, max] and equals min
\* plus a whole multiple of step.
C26_DefaultsOnSliderGrid ==
    LET schema == getControlSchema(anim.type)
        defaults == getDefaultParams(anim.type)
    IN \A k \in { key \in DOMAIN schema : schema[key].type = "range" } :
          /\ schema[k].min <= defaults[k] /\ defaults[k] <= schema[k].max
          /\ (defaults[k] - schema[k].min) % schema[k].step = 0

\* C27: a render() call on a PerlinNoise leaves its noiseOffset as it was, and
\* while the instance is paused the render after it, with the same params,
\* draws from the same values (it samples the same noise field).
C27_RenderKeepsNoiseOffset ==
    [][anim.type = "perlin_noise" /\ last'.op = "render" =>
          /\ anim'.noiseOffset = anim.noiseOffset
          /\ ~anim.isPlaying => Drawing(anim') = Drawing(anim)]_vars

\* C29: for a RotatingPolygons instance lastTime equals time (the elapsed
\* time) in every reachable state: after construction and after any sequence
\* of play, pause, update, render, reset and updateParams calls (and of the
\* driver's reset).
C29_LastTimeIsElapsedTime ==
    anim.type = "rotating_polygons" =>
        /\ anim.lastTime = anim.time
        /\ last.op = "reset" => anim.lastTime = 0

C29_Witness ==
    /\ anim.type = "rotating_polygons"
    /\ last.op = "update" /\ anim.isPlaying
    /\ updates = MaxUpdates
    /\ anim.time # 0 /\ anim.lastTime = anim.time
    /\ anim.params.speed = -10

\* C30: for every table generatePermutation produces and every finite x, y, z,
\* every index noise() reads the permutation table at (X, X+1, A, A+1, B, B+1,
\* and AA, AB, BA, BB each with and without +1) lies in 0..511: no read falls
\* outside the 512-entry table.
C30_NoiseReadsInsideTable ==
    last.op = "noise" =>
        /\ last.reads \subseteq 0..511
        /\ last.reads \subseteq DOMAIN anim.permutation

C30_Witness ==
    /\ last.op = "noise"
    /\ 511 \in last.reads
    /\ 0 \in last.reads
    /\ last.x < 0

\* C28: in the mixer-capable driver, in every state reachable after
\* construction through UI events (mixer toggle, animation-type change,
\* play/pause, reset), the animation that togglePlayPause,
\* updatePlayPauseButton and reset operate on is an instance and not null; in
\* particular mixerMode implies that combinationAnimation is not null, and no
\* handler ends reading a property of null.
C28_CurrentAnimationNeverNull ==
    /\ currentAnimation(anim) # Null
    /\ anim.mixerMode => anim.combinationAnimation # Null
    /\ last.outcome # "TypeError"

=============================================================================
